---- MODULE Spec2Model ----
(***************************************************************************)
(* Model of the Landscape API client binding (plugins/module_utils/base.py) *)
(* request construction, signing, transport and error mapping.             *)
(*                                                                         *)
(* Python str values are sequences of code points (ASCII), so that         *)
(* sorting, percent-encoding and URL parsing are computed character by     *)
(* character.  Python dicts are functions whose domain is a set of keys.    *)
(***************************************************************************)
EXTENDS Integers, Sequences, FiniteSets, TLC

VARIABLES facade, pc, posts, call, encoded, arguments, signing, sent, response, outcome, prev,
          registry, module

vars == <<facade, pc, posts, call, encoded, arguments, signing, sent, response, outcome, prev,
          registry, module>>

(***************************************************************************)
(* Bounds of the model.                                                    *)
(***************************************************************************)
\* longest native list handed to a list parameter
MaxListLen == 2
\* largest number of sub-errors in a multi-error payload
MaxSubErrors == 1
MaxCodes == 3
\* the longest string handed to _parse_csv_list_safely
MaxCsvLen == 4

(***************************************************************************)
(* String literals of the source.                                          *)
(***************************************************************************)
\* "access_key_id"
S_access_key_id == <<97, 99, 99, 101, 115, 115, 95, 107, 101, 121, 95, 105, 100>>
\* "action"
S_action == <<97, 99, 116, 105, 111, 110>>
\* "signature_version"
S_signature_version == <<115, 105, 103, 110, 97, 116, 117, 114, 101, 95, 118, 101, 114, 115, 105, 111, 110>>
\* "signature_method"
S_signature_method == <<115, 105, 103, 110, 97, 116, 117, 114, 101, 95, 109, 101, 116, 104, 111, 100>>
\* "timestamp"
S_timestamp == <<116, 105, 109, 101, 115, 116, 97, 109, 112>>
\* "version"
S_version == <<118, 101, 114, 115, 105, 111, 110>>
\* "2"
S_2 == <<50>>
\* "HmacSHA256"
S_HmacSHA256 == <<72, 109, 97, 99, 83, 72, 65, 50, 53, 54>>
\* "POST"
S_POST == <<80, 79, 83, 84>>
\* "&signature="
S_amp_signature_eq == <<38, 115, 105, 103, 110, 97, 116, 117, 114, 101, 61>>
\* "http://"
S_http == <<104, 116, 116, 112, 58, 47, 47>>
\* "https://"
S_https == <<104, 116, 116, 112, 115, 58, 47, 47>>
\* "get-script-code"
S_get_script_code == <<103, 101, 116, 45, 115, 99, 114, 105, 112, 116, 45, 99, 111, 100, 101>>
\* the only entry of the tuple RAW_ACTIONS_LIST
RAW_ACTIONS_LIST == <<S_get_script_code>>
\* "Error"
S_Error == <<69, 114, 114, 111, 114>>
\* "true"
S_true == <<116, 114, 117, 101>>
\* "false"
S_false == <<102, 97, 108, 115, 101>>
\* "True"
S_True == <<84, 114, 117, 101>>
\* "False"
S_False == <<70, 97, 108, 115, 101>>
\* "None"
S_None == <<78, 111, 110, 101>>
\* "application/x-www-form-urlencoded"
S_form_urlencoded == <<97, 112, 112, 108, 105, 99, 97, 116, 105, 111, 110, 47, 120, 45, 119, 119, 119, 45, 102, 111, 114, 109, 45, 117, 114, 108, 101, 110, 99, 111, 100, 101, 100>>
\* "2011-08-01"
LATEST_VERSION == <<50, 48, 49, 49, 45, 48, 56, 45, 48, 49>>
\* "2013-11-04"
FUTURE_VERSION == <<50, 48, 49, 51, 45, 49, 49, 45, 48, 52>>

(***************************************************************************)
(* Python str and dict primitives.                                         *)
(***************************************************************************)
RECURSIVE Join(_, _)
\* sep.join(parts)
Join(sep, parts) ==
  IF parts = <<>> THEN <<>>
  ELSE IF Len(parts) = 1 THEN parts[1]
  ELSE parts[1] \o sep \o Join(sep, Tail(parts))

\* s.startswith(p)
StartsWith(s, p) == Len(s) >= Len(p) /\ SubSeq(s, 1, Len(p)) = p

\* sub in s, for two str
StrIn(sub, s) ==
  \E i \in 0..(Len(s) - Len(sub)) : SubSeq(s, i + 1, i + Len(sub)) = sub

\* s.endswith(p)
EndsWith(s, p) == Len(s) >= Len(p) /\ SubSeq(s, Len(s) - Len(p) + 1, Len(s)) = p

RECURSIVE Lower(_)
\* s.lower() on ASCII
Lower(s) ==
  IF s = <<>> THEN <<>>
  ELSE <<IF Head(s) \in 65..90 THEN Head(s) + 32 ELSE Head(s)>> \o Lower(Tail(s))

RECURSIVE LStrip(_)
LStrip(s) == IF s /= <<>> /\ Head(s) \in {32, 9, 10, 13} THEN LStrip(Tail(s)) ELSE s

RECURSIVE RStrip(_)
RStrip(s) ==
  IF s /= <<>> /\ s[Len(s)] \in {32, 9, 10, 13} THEN RStrip(SubSeq(s, 1, Len(s) - 1)) ELSE s

\* s.strip()
Strip(s) == RStrip(LStrip(s))

RECURSIVE Split(_, _)
\* s.split(chr(c)): the pieces between the occurrences of the character c
Split(s, c) ==
  IF \A i \in 1..Len(s) : s[i] /= c THEN <<s>>
  ELSE LET i == CHOOSE j \in 1..Len(s) : s[j] = c /\ \A k \in 1..(j - 1) : s[k] /= c
       IN <<SubSeq(s, 1, i - 1)>> \o Split(SubSeq(s, i + 1, Len(s)), c)

RECURSIVE StrLess(_, _)
\* a < b on str: code point by code point, a proper prefix is smaller
StrLess(a, b) ==
  IF a = <<>> THEN b /= <<>>
  ELSE IF b = <<>> THEN FALSE
  ELSE IF Head(a) /= Head(b) THEN Head(a) < Head(b)
  ELSE StrLess(Tail(a), Tail(b))

RECURSIVE SortedKeys(_)
\* the keys of sorted(params.items()): dict keys are unique, so the pairs
\* are ordered by key alone
SortedKeys(K) ==
  IF K = {} THEN <<>>
  ELSE LET m == CHOOSE k \in K : \A o \in K \ {k} : StrLess(k, o)
       IN <<m>> \o SortedKeys(K \ {m})

RECURSIVE IntToStr(_)
\* "%d" % n, str(n) for an int
IntToStr(n) ==
  IF n < 0 THEN <<45>> \o IntToStr(0 - n)
  ELSE IF n < 10 THEN <<48 + n>>
  ELSE IntToStr(n \div 10) \o <<48 + (n % 10)>>

RECURSIVE StrToInt(_)
\* int(s) for a str of decimal digits
StrToInt(s) ==
  IF s = <<>> THEN 0 ELSE 10 * StrToInt(SubSeq(s, 1, Len(s) - 1)) + (s[Len(s)] - 48)

IsDigits(s) == s /= <<>> /\ \A i \in 1..Len(s) : s[i] \in 48..57

\* {}
EmptyDict == [k \in {} |-> <<>>]

\* d.update(e): the entries of e replace those of d
DictUpdate(d, e) ==
  [k \in (DOMAIN d) \cup (DOMAIN e) |-> IF k \in DOMAIN e THEN e[k] ELSE d[k]]

\* d without the key k (d.pop(k))
DictPop(d, k) == [j \in (DOMAIN d) \ {k} |-> d[j]]

(***************************************************************************)
(* urllib.parse.quote, as run_query calls it.                              *)
(***************************************************************************)
HexDigit(d) == IF d < 10 THEN 48 + d ELSE 55 + d

\* letters, digits and "_.-~" are never escaped
AlwaysSafe == (48..57) \cup (65..90) \cup (97..122) \cup {95, 46, 45, 126}

\* QuoteChar, except that "%" is left as it is
QuoteChar_PercentSafe(c, safe) ==
  IF c \in AlwaysSafe \cup safe \cup {37} THEN <<c>>
  ELSE <<37, HexDigit(c \div 16), HexDigit(c % 16)>>

\* one character of quote(s, safe)
QuoteChar(c, safe) ==
  IF c \in AlwaysSafe \cup safe THEN <<c>>
  ELSE <<37, HexDigit(c \div 16), HexDigit(c % 16)>>

RECURSIVE quote(_, _)
\* quote(s, safe=...): every character outside the safe set becomes %XX
quote(s, safe) ==
  IF s = <<>> THEN <<>> ELSE QuoteChar(Head(s), safe) \o quote(Tail(s), safe)

(***************************************************************************)
(* parse(url)                                                              *)
(***************************************************************************)
\* first index >= from of a character of cs in s, Len(s) + 1 when there is none
FindAny(s, cs, from) ==
  IF \E i \in from..Len(s) : s[i] \in cs
  THEN CHOOSE i \in from..Len(s) : s[i] \in cs /\ \A k \in from..(i - 1) : s[k] \notin cs
  ELSE Len(s) + 1

parse(url) ==
  LET lowurl == Lower(url) IN
  IF ~(StartsWith(lowurl, S_http) \/ StartsWith(lowurl, S_https))
  THEN [exc |-> "SyntaxError", host |-> <<>>, has_port |-> FALSE, port |-> 0, path |-> <<>>]
  ELSE
    LET u == Strip(url)
        \* urlparse: the netloc runs from after "://" to the next "/", "?" or "#"
        first == IF StartsWith(lowurl, S_https) THEN Len(S_https) + 1 ELSE Len(S_http) + 1
        stop == FindAny(u, {47, 63, 35}, first)
        netloc == SubSeq(u, first, stop - 1)
        path == SubSeq(u, stop, Len(u))
        parts == Split(netloc, 58)
    IN IF Len(parts) = 1
       THEN [exc |-> "None", host |-> netloc, has_port |-> FALSE, port |-> 0, path |-> path]
       ELSE IF Len(parts) /= 2
       THEN [exc |-> "ValueError", host |-> <<>>, has_port |-> FALSE, port |-> 0, path |-> <<>>]
       ELSE IF IsDigits(parts[2])
       THEN [exc |-> "None", host |-> parts[1], has_port |-> TRUE,
             port |-> StrToInt(parts[2]), path |-> path]
       ELSE [exc |-> "None", host |-> parts[1], has_port |-> FALSE, port |-> 0, path |-> path]

(***************************************************************************)
(* Python values handed to the encoder.                                    *)
(***************************************************************************)
PyNone == [t |-> "NoneType"]
PyS(s) == [t |-> "str", v |-> s]
PyI(n) == [t |-> "int", v |-> n]
PyB(b) == [t |-> "bool", v |-> b]
\* a list holds its items in order
PyL(items) == [t |-> "list", v |-> items]
\* a dict holds its <<key, value>> pairs in insertion order
PyD(pairs) == [t |-> "dict", v |-> pairs]

\* bool is a subclass of int: True == 1 and False == 0
IsNum(x) == x.t \in {"int", "bool"}
NumVal(x) == IF x.t = "bool" THEN (IF x.v THEN 1 ELSE 0) ELSE x.v

RECURSIVE PyEq(_, _)
\* a == b
PyEq(a, b) ==
  IF IsNum(a) /\ IsNum(b) THEN NumVal(a) = NumVal(b)
  ELSE IF a.t /= b.t THEN FALSE
  ELSE CASE a.t = "NoneType" -> TRUE
         [] a.t = "str" -> a.v = b.v
         [] a.t = "list" ->
              /\ Len(a.v) = Len(b.v)
              /\ \A i \in 1..Len(a.v) : PyEq(a.v[i], b.v[i])
         [] a.t = "dict" ->
              /\ Len(a.v) = Len(b.v)
              /\ \A i \in 1..Len(a.v) : \E j \in 1..Len(b.v) :
                    PyEq(a.v[i][1], b.v[j][1]) /\ PyEq(a.v[i][2], b.v[j][2])

\* str(x) of a scalar
PyStr(x) ==
  CASE x.t = "str" -> x.v
    [] x.t = "int" -> IntToStr(x.v)
    [] x.t = "bool" -> IF x.v THEN S_True ELSE S_False
    [] x.t = "NoneType" -> S_None

\* bool(x)
Truthy(x) ==
  CASE x.t = "NoneType" -> FALSE
    [] x.t = "bool" -> x.v
    [] x.t = "int" -> x.v /= 0
    [] x.t \in {"str", "list", "dict"} -> x.v /= <<>>

(***************************************************************************)
(* base64.b64encode and os.path.basename, as the file encoders call them.  *)
(***************************************************************************)
B64Char(i) ==
  IF i < 26 THEN 65 + i
  ELSE IF i < 52 THEN 97 + (i - 26)
  ELSE IF i < 62 THEN 48 + (i - 52)
  ELSE IF i = 62 THEN 43 ELSE 47

RECURSIVE b64encode(_)
b64encode(bytes) ==
  IF bytes = <<>> THEN <<>>
  ELSE IF Len(bytes) = 1
  THEN <<B64Char(bytes[1] \div 4), B64Char((bytes[1] % 4) * 16), 61, 61>>
  ELSE IF Len(bytes) = 2
  THEN <<B64Char(bytes[1] \div 4), B64Char((bytes[1] % 4) * 16 + bytes[2] \div 16),
         B64Char((bytes[2] % 16) * 4), 61>>
  ELSE <<B64Char(bytes[1] \div 4), B64Char((bytes[1] % 4) * 16 + bytes[2] \div 16),
         B64Char((bytes[2] % 16) * 4 + bytes[3] \div 64), B64Char(bytes[3] % 64)>>
       \o b64encode(SubSeq(bytes, 4, Len(bytes)))

\* os.path.basename(path): what follows the last "/"
basename(path) ==
  IF \A i \in 1..Len(path) : path[i] /= 47 THEN path
  ELSE LET i == CHOOSE j \in 1..Len(path) :
                  path[j] = 47 /\ \A k \in (j + 1)..Len(path) : path[k] /= 47
       IN SubSeq(path, i + 1, Len(path))

\* "/d/k"
PathReadable == <<47, 100, 47, 107>>
\* "/nonexistent"
PathMissing == <<47, 110, 111, 110, 101, 120, 105, 115, 116, 101, 110, 116>>

\* the local filesystem: path -> bytes of the file ("hi&" in /d/k)
FileSystem == [p \in {PathReadable} |-> <<104, 105, 38>>]

(***************************************************************************)
(* Comma-separated input: _parse_csv_list_safely, _parse_csv_mapping_safely *)
(***************************************************************************)
RECURSIVE CsvScan(_, _, _, _)
\* the items yielded from position i on, with the loop's locals item, escaped
CsvScan(value, i, item, escaped) ==
  IF i > Len(value)
  THEN LET last == IF escaped THEN item \o <<92>> ELSE item
       IN IF last /= <<>> THEN <<last>> ELSE <<>>
  ELSE LET c == value[i] IN
       IF c = 44
       THEN IF escaped
            THEN CsvScan(value, i + 1, item \o <<c>>, FALSE)
            ELSE <<item>> \o CsvScan(value, i + 1, <<>>, FALSE)
       ELSE IF c = 92
       THEN CsvScan(value, i + 1, item, TRUE)
       ELSE CsvScan(value, i + 1, (IF escaped THEN item \o <<92>> ELSE item) \o <<c>>, escaped)

_parse_csv_list_safely(value) == CsvScan(value, 1, <<>>, FALSE)

\* item.partition("="): <<key, sep, value>>
Partition(item, c) ==
  IF \A i \in 1..Len(item) : item[i] /= c THEN <<item, <<>>, <<>>>>
  ELSE LET i == CHOOSE j \in 1..Len(item) : item[j] = c /\ \A k \in 1..(j - 1) : item[k] /= c
       IN <<SubSeq(item, 1, i - 1), <<c>>, SubSeq(item, i + 1, Len(item))>>

\* [exc, pairs]: the pairs yielded, or ValueError at the first item without "="
_parse_csv_mapping_safely(value) ==
  LET items == _parse_csv_list_safely(value)
      parted == [i \in 1..Len(items) |-> Partition(items[i], 61)]
  IN IF \E i \in 1..Len(items) : parted[i][2] = <<>>
     THEN [exc |-> "ValueError", pairs |-> <<>>]
     ELSE [exc |-> "None", pairs |-> [i \in 1..Len(items) |-> <<parted[i][1], parted[i][3]>>]]

(***************************************************************************)
(* Names of the schema: actions (A_), parameters (N_), error codes (E_).    *)
(***************************************************************************)
\* "CreateAccessGroup"
A_CreateAccessGroup == <<67, 114, 101, 97, 116, 101, 65, 99, 99, 101, 115, 115, 71, 114, 111, 117, 112>>
\* "AssociateAlert"
A_AssociateAlert == <<65, 115, 115, 111, 99, 105, 97, 116, 101, 65, 108, 101, 114, 116>>
\* "AcceptPendingComputers"
A_AcceptPendingComputers == <<65, 99, 99, 101, 112, 116, 80, 101, 110, 100, 105, 110, 103, 67, 111, 109, 112, 117, 116, 101, 114, 115>>
\* "CreateSavedSearch"
A_CreateSavedSearch == <<67, 114, 101, 97, 116, 101, 83, 97, 118, 101, 100, 83, 101, 97, 114, 99, 104>>
\* "GetScriptCode"
A_GetScriptCode == <<71, 101, 116, 83, 99, 114, 105, 112, 116, 67, 111, 100, 101>>
\* "CreateScriptAttachment"
A_CreateScriptAttachment == <<67, 114, 101, 97, 116, 101, 83, 99, 114, 105, 112, 116, 65, 116, 116, 97, 99, 104, 109, 101, 110, 116>>
\* "SetPolicy"
A_SetPolicy == <<83, 101, 116, 80, 111, 108, 105, 99, 121>>
\* "search"
N_search == <<115, 101, 97, 114, 99, 104>>
\* "title"
N_title == <<116, 105, 116, 108, 101>>
\* "parent"
N_parent == <<112, 97, 114, 101, 110, 116>>
\* "name"
N_name == <<110, 97, 109, 101>>
\* "description"
N_description == <<100, 101, 115, 99, 114, 105, 112, 116, 105, 111, 110>>
\* "tags"
N_tags == <<116, 97, 103, 115>>
\* "all_computers"
N_all_computers == <<97, 108, 108, 95, 99, 111, 109, 112, 117, 116, 101, 114, 115>>
\* "computer_ids"
N_computer_ids == <<99, 111, 109, 112, 117, 116, 101, 114, 95, 105, 100, 115>>
\* "existing_ids"
N_existing_ids == <<101, 120, 105, 115, 116, 105, 110, 103, 95, 105, 100, 115>>
\* "access_group"
N_access_group == <<97, 99, 99, 101, 115, 115, 95, 103, 114, 111, 117, 112>>
\* "script_id"
N_script_id == <<115, 99, 114, 105, 112, 116, 95, 105, 100>>
\* "file"
N_file == <<102, 105, 108, 101>>
\* "policy"
N_policy == <<112, 111, 108, 105, 99, 121>>
\* "depth"
N_depth == <<100, 101, 112, 116, 104>>
\* "label"
N_label == <<108, 97, 98, 101, 108>>
\* "bogus"
N_bogus == <<98, 111, 103, 117, 115>>
\* "DuplicateAccessGroup"
E_DuplicateAccessGroup == <<68, 117, 112, 108, 105, 99, 97, 116, 101, 65, 99, 99, 101, 115, 115, 71, 114, 111, 117, 112>>
\* "Unauthorised"
E_Unauthorised == <<85, 110, 97, 117, 116, 104, 111, 114, 105, 115, 101, 100>>
\* "UnknownAccessGroup"
E_UnknownAccessGroup == <<85, 110, 107, 110, 111, 119, 110, 65, 99, 99, 101, 115, 115, 71, 114, 111, 117, 112>>
\* "UnknownAlertTypeError"
E_UnknownAlertTypeError == <<85, 110, 107, 110, 111, 119, 110, 65, 108, 101, 114, 116, 84, 121, 112, 101, 69, 114, 114, 111, 114>>
\* "InvalidParameterCombination"
E_InvalidParameterCombination == <<73, 110, 118, 97, 108, 105, 100, 80, 97, 114, 97, 109, 101, 116, 101, 114, 67, 111, 109, 98, 105, 110, 97, 116, 105, 111, 110>>
\* "UnknownTag"
E_UnknownTag == <<85, 110, 107, 110, 111, 119, 110, 84, 97, 103>>
\* "InvalidAlertTypeError"
E_InvalidAlertTypeError == <<73, 110, 118, 97, 108, 105, 100, 65, 108, 101, 114, 116, 84, 121, 112, 101, 69, 114, 114, 111, 114>>
\* "InsufficientLicenses"
E_InsufficientLicenses == <<73, 110, 115, 117, 102, 102, 105, 99, 105, 101, 110, 116, 76, 105, 99, 101, 110, 115, 101, 115>>
\* "UnknownComputer"
E_UnknownComputer == <<85, 110, 107, 110, 111, 119, 110, 67, 111, 109, 112, 117, 116, 101, 114>>
\* "TooManyScriptAttachments"
E_TooManyScriptAttachments == <<84, 111, 111, 77, 97, 110, 121, 83, 99, 114, 105, 112, 116, 65, 116, 116, 97, 99, 104, 109, 101, 110, 116, 115>>
\* "ScriptAttachmentSize"
E_ScriptAttachmentSize == <<83, 99, 114, 105, 112, 116, 65, 116, 116, 97, 99, 104, 109, 101, 110, 116, 83, 105, 122, 101>>
\* "DuplicateScriptAttachment"
E_DuplicateScriptAttachment == <<68, 117, 112, 108, 105, 99, 97, 116, 101, 83, 99, 114, 105, 112, 116, 65, 116, 116, 97, 99, 104, 109, 101, 110, 116>>
\* "UnknownScript"
E_UnknownScript == <<85, 110, 107, 110, 111, 119, 110, 83, 99, 114, 105, 112, 116>>
\* "MultiError"
E_MultiError == <<77, 117, 108, 116, 105, 69, 114, 114, 111, 114>>
\* "SignatureDoesNotMatchError"
E_SignatureDoesNotMatchError == <<83, 105, 103, 110, 97, 116, 117, 114, 101, 68, 111, 101, 115, 78, 111, 116, 77, 97, 116, 99, 104, 69, 114, 114, 111, 114>>
\* "AuthFailureError"
E_AuthFailureError == <<65, 117, 116, 104, 70, 97, 105, 108, 117, 114, 101, 69, 114, 114, 111, 114>>
\* "InvalidCredentialsError"
E_InvalidCredentialsError == <<73, 110, 118, 97, 108, 105, 100, 67, 114, 101, 100, 101, 110, 116, 105, 97, 108, 115, 69, 114, 114, 111, 114>>
\* "HTTPError"
E_HTTPError == <<72, 84, 84, 80, 69, 114, 114, 111, 114>>
\* "APIError"
E_APIError == <<65, 80, 73, 69, 114, 114, 111, 114>>
\* "UnauthorisedError"
E_UnauthorisedError == <<85, 110, 97, 117, 116, 104, 111, 114, 105, 115, 101, 100, 69, 114, 114, 111, 114>>
\* "TotallyUnknownCode"
E_TotallyUnknownCode == <<84, 111, 116, 97, 108, 108, 121, 85, 110, 107, 110, 111, 119, 110, 67, 111, 100, 101>>
\* "SignatureDoesNotMatch"
E_SignatureDoesNotMatch ==
  <<83, 105, 103, 110, 97, 116, 117, 114, 101, 68, 111, 101, 115, 78, 111, 116, 77, 97, 116,
    99, 104>>
\* "InvalidCredentials"
E_InvalidCredentials ==
  <<73, 110, 118, 97, 108, 105, 100, 67, 114, 101, 100, 101, 110, 116, 105, 97, 108, 115>>
\* "InvalidSavedSearchName"
E_InvalidSavedSearchName == <<73, 110, 118, 97, 108, 105, 100, 83, 97, 118, 101, 100, 83, 101, 97, 114, 99, 104, 78, 97, 109, 101>>
\* "DuplicateSavedSearch"
E_DuplicateSavedSearch == <<68, 117, 112, 108, 105, 99, 97, 116, 101, 83, 97, 118, 101, 100, 83, 101, 97, 114, 99, 104>>
\* "InvalidSavedSearchCriteria"
E_InvalidSavedSearchCriteria == <<73, 110, 118, 97, 108, 105, 100, 83, 97, 118, 101, 100, 83, 101, 97, 114, 99, 104, 67, 114, 105, 116, 101, 114, 105, 97>>
\* "AuthFailure"
E_AuthFailure == <<65, 117, 116, 104, 70, 97, 105, 108, 117, 114, 101>>

(***************************************************************************)
(* SCHEMA: parameter descriptions.  The model carries four actions of the   *)
(* built-in schema, and one action of a caller-supplied schema that uses    *)
(* the structure type.                                                      *)
(***************************************************************************)
NoSpec == [type |-> "none"]

\* a required parameter of a scalar type
Param(name, type) ==
  [name |-> name, type |-> type, optional |-> FALSE, default |-> PyNone,
   item |-> NoSpec, key |-> NoSpec, value |-> NoSpec, fields |-> <<>>]

\* "optional": True, "default": d
Optional(p, d) == [p EXCEPT !.optional = TRUE, !.default = d]

ListOf(name, item) == [Param(name, "list") EXCEPT !.item = item]

MappingOf(name, key, value) == [Param(name, "mapping") EXCEPT !.key = key, !.value = value]

\* fields: the <<name, description>> pairs in the order of the fields dict
StructureOf(name, fields) == [Param(name, "structure") EXCEPT !.fields = fields]

AcceptPendingComputers ==
  [parameters |-> <<ListOf(N_computer_ids, Param(<<>>, "integer")),
                    Optional(MappingOf(N_existing_ids, Param(<<>>, "integer"),
                                       Param(<<>>, "integer")), PyD(<<>>)),
                    Optional(Param(N_access_group, "unicode"), PyNone)>>,
   errors |-> <<E_UnknownAccessGroup, E_InsufficientLicenses, E_UnknownComputer>>]

AssociateAlert ==
  [parameters |-> <<Param(N_name, "unicode"),
                    Optional(ListOf(N_tags, Param(<<>>, "unicode")), PyL(<<>>)),
                    Optional(Param(N_all_computers, "boolean"), PyB(FALSE))>>,
   errors |-> <<E_UnknownAlertTypeError, E_InvalidParameterCombination, E_UnknownTag,
                E_InvalidAlertTypeError>>]

CreateAccessGroup_2011 ==
  [parameters |-> <<Param(N_title, "unicode title"),
                    Optional(Param(N_parent, "unicode"), PyNone)>>,
   errors |-> <<E_DuplicateAccessGroup, E_Unauthorised, E_UnknownAccessGroup>>]

CreateAccessGroup_2013 ==
  [parameters |-> <<Param(N_name, "unicode"),
                    Optional(Param(N_description, "unicode"), PyNone),
                    Optional(Param(N_parent, "unicode"), PyNone)>>,
   errors |-> <<E_DuplicateAccessGroup, E_Unauthorised, E_UnknownAccessGroup>>]

\* the same description under both versions: the optional name comes before
\* the two required parameters
CreateSavedSearch ==
  [parameters |-> <<Optional(Param(N_name, "unicode"), PyNone), Param(N_title, "unicode title"),
                    Param(N_search, "unicode")>>,
   errors |-> <<E_InvalidSavedSearchName, E_DuplicateSavedSearch,
                E_InvalidSavedSearchCriteria>>]

GetScriptCode ==
  [parameters |-> <<Param(N_script_id, "integer")>>,
   errors |-> <<E_UnknownScript>>]

CreateScriptAttachment ==
  [parameters |-> <<Param(N_script_id, "integer"), Param(N_file, "file")>>,
   errors |-> <<E_TooManyScriptAttachments, E_ScriptAttachmentSize,
                E_DuplicateScriptAttachment, E_UnknownScript>>]

\* the schema table, in the order of the source: action -> version -> handler
SCHEMA ==
  << [name |-> A_AcceptPendingComputers,
      versions |-> << <<LATEST_VERSION, AcceptPendingComputers>>,
                      <<FUTURE_VERSION, AcceptPendingComputers>> >>],
     [name |-> A_AssociateAlert,
      versions |-> << <<LATEST_VERSION, AssociateAlert>>,
                      <<FUTURE_VERSION, AssociateAlert>> >>],
     [name |-> A_CreateAccessGroup,
      versions |-> << <<LATEST_VERSION, CreateAccessGroup_2011>>,
                      <<FUTURE_VERSION, CreateAccessGroup_2013>> >>],
     [name |-> A_CreateSavedSearch,
      versions |-> << <<LATEST_VERSION, CreateSavedSearch>>,
                      <<FUTURE_VERSION, CreateSavedSearch>> >>],
     [name |-> A_CreateScriptAttachment,
      versions |-> << <<LATEST_VERSION, CreateScriptAttachment>>,
                      <<FUTURE_VERSION, CreateScriptAttachment>> >>],
     [name |-> A_GetScriptCode,
      versions |-> << <<LATEST_VERSION, GetScriptCode>>,
                      <<FUTURE_VERSION, GetScriptCode>> >>] >>

\* a schema handed to the constructor (the schema= argument): one action
\* with a structure parameter {depth: integer, label: optional unicode}
SetPolicy ==
  [parameters |-> <<StructureOf(N_policy,
                      << <<N_depth, Param(N_depth, "integer")>>,
                         <<N_label, Optional(Param(N_label, "unicode"), PyNone)>> >>)>>,
   errors |-> <<E_UnknownComputer>>]

CustomSchema ==
  << [name |-> A_SetPolicy,
      versions |-> << <<LATEST_VERSION, SetPolicy>>, <<FUTURE_VERSION, SetPolicy>> >>] >>

\* schema[method][version]
HasAction(schema, method, version) ==
  \E i \in 1..Len(schema) :
     /\ schema[i].name = method
     /\ \E j \in 1..Len(schema[i].versions) : schema[i].versions[j][1] = version

SchemaAction(schema, method, version) ==
  LET i == CHOOSE k \in 1..Len(schema) : schema[k].name = method
      j == CHOOSE k \in 1..Len(schema[i].versions) : schema[i].versions[k][1] = version
  IN schema[i].versions[j][2]

(***************************************************************************)
(* The parameter encoder of _API.                                          *)
(* An encoder returns [exc, msg, out]: exc is "None" and out the dict of    *)
(* encoded parameters, or exc names the exception that was raised.          *)
(***************************************************************************)
Ok(out) == [exc |-> "None", msg |-> "", out |-> out]
Raise(exc, msg) == [exc |-> exc, msg |-> msg, out |-> EmptyDict]

\* the keys of a dict value as argument names, for _encode_struct_fields
StructArgs(d) ==
  [n \in {d.v[i][1].v : i \in 1..Len(d.v)} |->
     d.v[CHOOSE i \in 1..Len(d.v) : d.v[i][1].v = n][2]]

RECURSIVE DistinctKeys(_)
\* the keys of the dict built from the pairs, in order of first insertion
DistinctKeys(pairs) ==
  IF pairs = <<>> THEN <<>>
  ELSE LET rest == DistinctKeys(SubSeq(pairs, 1, Len(pairs) - 1))
           k == Strip(pairs[Len(pairs)][1])
       IN IF \E i \in 1..Len(rest) : rest[i] = k THEN rest ELSE Append(rest, k)

_encode_integer(parameter, name, arg) == Ok([k \in {name} |-> PyStr(arg)])

_encode_raw_string(parameter, name, value) == Ok([k \in {name} |-> PyStr(value)])

_encode_enum(parameter, name, value) == Ok([k \in {name} |-> PyStr(value)])

\* date and datetime values are outside the value universe of the model
_encode_unicode(parameter, name, value) == Ok([k \in {name} |-> PyStr(value)])

_encode_boolean(parameter, name, value) ==
  Ok([k \in {name} |-> IF Truthy(value) THEN S_true ELSE S_false])

_encode_file(parameter, name, value) ==
  IF value.t /= "str" THEN Raise("TypeError", "open")
  ELSE IF value.v \notin DOMAIN FileSystem THEN Raise("FileNotFoundError", "open")
  ELSE LET encoded_contents == b64encode(FileSystem[value.v])
           payload == basename(value.v) \o <<36, 36>> \o encoded_contents
       IN Ok([k \in {name} |-> payload])

_encode_data(parameter, name, value) ==
  IF value.t /= "str" THEN Raise("TypeError", "open")
  ELSE IF value.v \notin DOMAIN FileSystem THEN Raise("FileNotFoundError", "open")
  ELSE Ok([k \in {name} |-> b64encode(FileSystem[value.v])])

RECURSIVE _encode_argument(_, _, _)
RECURSIVE EncodeFields(_, _, _, _, _)
RECURSIVE EncodeItems(_, _, _, _, _)
RECURSIVE EncodeEntries(_, _, _, _, _)

\* EncodeFields, except that a required field without an argument is passed
\* over like an optional one
EncodeFields_SkipMissing(fields, i, args, prefix, result) ==
  IF i > Len(fields)
  THEN IF DOMAIN args /= {} THEN Raise("TypeError", "Extra arguments") ELSE Ok(result)
  ELSE LET parameter_name == fields[i][1]
           parameter_description == fields[i][2]
       IN IF parameter_name \notin DOMAIN args
          THEN EncodeFields(fields, i + 1, args, prefix, result)
          ELSE LET encoded_item == _encode_argument(parameter_description,
                                                    prefix \o parameter_name,
                                                    args[parameter_name])
               IN IF encoded_item.exc /= "None" THEN encoded_item
                  ELSE EncodeFields(fields, i + 1, DictPop(args, parameter_name), prefix,
                                    DictUpdate(result, encoded_item.out))

\* the loop of _encode_struct_fields from field i on, then the check for
\* arguments that no field consumed
EncodeFields(fields, i, args, prefix, result) ==
  IF i > Len(fields)
  THEN IF DOMAIN args /= {} THEN Raise("TypeError", "Extra arguments") ELSE Ok(result)
  ELSE LET parameter_name == fields[i][1]
           parameter_description == fields[i][2]
       IN IF parameter_name \notin DOMAIN args
          THEN IF ~parameter_description.optional
               THEN Raise("TypeError", "Missing parameter")
               ELSE EncodeFields(fields, i + 1, args, prefix, result)
          ELSE LET encoded_item == _encode_argument(parameter_description,
                                                    prefix \o parameter_name,
                                                    args[parameter_name])
               IN IF encoded_item.exc /= "None" THEN encoded_item
                  ELSE EncodeFields(fields, i + 1, DictPop(args, parameter_name), prefix,
                                    DictUpdate(result, encoded_item.out))

\* _encode_struct_fields, except that the arguments no field declares are
\* dropped instead of being reported
_encode_struct_fields_DropExtra(fields, args, prefix) ==
  EncodeFields(fields, 1,
               [n \in (DOMAIN args) \cap {fields[i][1] : i \in 1..Len(fields)} |-> args[n]],
               prefix, EmptyDict)

_encode_struct_fields(fields, args, prefix) == EncodeFields(fields, 1, args, prefix, EmptyDict)

\* EncodeItems, except that the items are numbered from 0
EncodeItems_ZeroIndexed(parameter, name, sequence, i, result) ==
  IF i > Len(sequence) THEN Ok(result)
  ELSE LET encoded_item == _encode_argument(parameter.item,
                                            name \o <<46>> \o IntToStr(i - 1), sequence[i])
       IN IF encoded_item.exc /= "None" THEN encoded_item
          ELSE EncodeItems(parameter, name, sequence, i + 1,
                           DictUpdate(result, encoded_item.out))

\* the loop of _encode_list from item i on
EncodeItems(parameter, name, sequence, i, result) ==
  IF i > Len(sequence) THEN Ok(result)
  ELSE LET encoded_item == _encode_argument(parameter.item,
                                            name \o <<46>> \o IntToStr(i), sequence[i])
       IN IF encoded_item.exc /= "None" THEN encoded_item
          ELSE EncodeItems(parameter, name, sequence, i + 1,
                           DictUpdate(result, encoded_item.out))

_encode_list(parameter, name, sequence) ==
  CASE sequence.t = "str" ->
         LET pieces == Split(sequence.v, 44)
         IN EncodeItems(parameter, name,
                        [i \in 1..Len(pieces) |-> PyS(Strip(pieces[i]))], 1, EmptyDict)
    [] sequence.t = "list" -> EncodeItems(parameter, name, sequence.v, 1, EmptyDict)
    [] sequence.t = "dict" ->
         EncodeItems(parameter, name, [i \in 1..Len(sequence.v) |-> sequence.v[i][1]],
                     1, EmptyDict)
    [] OTHER -> Raise("TypeError", "not iterable")

\* EncodeEntries, except that an entry is named by its position and not by
\* its key
EncodeEntries_ByPosition(parameter, name, items, i, result) ==
  IF i > Len(items) THEN Ok(result)
  ELSE IF Len(items[i]) /= 2 THEN Raise("ValueError", "unpack")
  ELSE LET subname == name \o <<46>> \o IntToStr(i)
           encoded_item == _encode_argument(parameter.value, subname, items[i][2])
       IN IF encoded_item.exc /= "None" THEN encoded_item
          ELSE EncodeEntries(parameter, name, items, i + 1,
                             DictUpdate(result, encoded_item.out))

\* the loop of _encode_mapping from entry i on; an entry is a <<key, value>>
\* pair, or a str that the loop header unpacks into two characters
EncodeEntries(parameter, name, items, i, result) ==
  IF i > Len(items) THEN Ok(result)
  ELSE IF Len(items[i]) /= 2 THEN Raise("ValueError", "unpack")
  ELSE LET key == _encode_argument(parameter.key, <<60, 107, 101, 121, 62>>, items[i][1])
       IN IF key.exc /= "None" THEN key
          ELSE IF <<60, 107, 101, 121, 62>> \notin DOMAIN key.out
          THEN Raise("KeyError", "<key>")
          ELSE LET subname == name \o <<46>> \o key.out[<<60, 107, 101, 121, 62>>]
                   encoded_item == _encode_argument(parameter.value, subname, items[i][2])
               IN IF encoded_item.exc /= "None" THEN encoded_item
                  ELSE EncodeEntries(parameter, name, items, i + 1,
                                     DictUpdate(result, encoded_item.out))

_encode_mapping(parameter, name, items) ==
  CASE items.t = "str" ->
         LET parsed == _parse_csv_mapping_safely(items.v)
         IN IF parsed.exc /= "None" THEN Raise(parsed.exc, "invalid key/value pair")
            ELSE \* items is now a dict, and iterating a dict yields its keys
                 LET keys == DistinctKeys(parsed.pairs)
                 IN EncodeEntries(parameter, name,
                                  [i \in 1..Len(keys) |->
                                     [j \in 1..Len(keys[i]) |-> PyS(<<keys[i][j]>>)]],
                                  1, EmptyDict)
    [] items.t = "dict" -> EncodeEntries(parameter, name, items.v, 1, EmptyDict)
    [] items.t = "list" ->
         IF \E i \in 1..Len(items.v) : items.v[i].t \notin {"list", "str"}
         THEN Raise("TypeError", "unpack")
         ELSE EncodeEntries(parameter, name,
                            [i \in 1..Len(items.v) |->
                               IF items.v[i].t = "list" THEN items.v[i].v
                               ELSE [j \in 1..Len(items.v[i].v) |-> PyS(<<items.v[i].v[j]>>)]],
                            1, EmptyDict)
    [] OTHER -> Raise("TypeError", "not iterable")

_encode_structure(parameter, name, dictionary) ==
  IF dictionary.t /= "dict" THEN Raise("AttributeError", "copy")
  ELSE _encode_struct_fields(parameter.fields, StructArgs(dictionary), name \o <<46>>)

\* _encode_argument, except that a value equal to the default is encoded too
_encode_argument_NoSuppress(parameter, name, value) ==
  CASE parameter.type = "integer" -> _encode_integer(parameter, name, value)
    [] parameter.type = "raw string" -> _encode_raw_string(parameter, name, value)
    [] parameter.type = "enum" -> _encode_enum(parameter, name, value)
    [] parameter.type \in {"unicode", "unicode line", "unicode title"} ->
         _encode_unicode(parameter, name, value)
    [] parameter.type = "file" -> _encode_file(parameter, name, value)
    [] parameter.type = "boolean" -> _encode_boolean(parameter, name, value)
    [] parameter.type = "list" -> _encode_list(parameter, name, value)
    [] parameter.type = "mapping" -> _encode_mapping(parameter, name, value)
    [] parameter.type = "data" -> _encode_data(parameter, name, value)
    [] parameter.type = "structure" -> _encode_structure(parameter, name, value)

_encode_argument(parameter, name, value) ==
  IF parameter.optional /\ PyEq(value, parameter.default) THEN Ok(EmptyDict)
  ELSE CASE parameter.type = "integer" -> _encode_integer(parameter, name, value)
         [] parameter.type = "raw string" -> _encode_raw_string(parameter, name, value)
         [] parameter.type = "enum" -> _encode_enum(parameter, name, value)
         [] parameter.type \in {"unicode", "unicode line", "unicode title"} ->
              _encode_unicode(parameter, name, value)
         [] parameter.type = "file" -> _encode_file(parameter, name, value)
         [] parameter.type = "boolean" -> _encode_boolean(parameter, name, value)
         [] parameter.type = "list" -> _encode_list(parameter, name, value)
         [] parameter.type = "mapping" -> _encode_mapping(parameter, name, value)
         [] parameter.type = "data" -> _encode_data(parameter, name, value)
         [] parameter.type = "structure" -> _encode_structure(parameter, name, value)

(***************************************************************************)
(* The error registry: _ErrorsContainer, _build_exceptions, add_error.      *)
(* A class is [name, def, serial]: the classes that _build_exception makes  *)
(* are told apart by the serial number of the call that made them.          *)
(***************************************************************************)
\* None, where a class is looked up
NoClass == [name |-> <<>>, def |-> "none", serial |-> 0]

HTTPError == [name |-> E_HTTPError, def |-> "static", serial |-> 0]
APIError == [name |-> E_APIError, def |-> "static", serial |-> 0]
MultiError == [name |-> E_MultiError, def |-> "static", serial |-> 0]
UnauthorisedError == [name |-> E_UnauthorisedError, def |-> "static", serial |-> 0]
SignatureDoesNotMatchError == [name |-> E_SignatureDoesNotMatchError, def |-> "static", serial |-> 0]
AuthFailureError == [name |-> E_AuthFailureError, def |-> "static", serial |-> 0]
InvalidCredentialsError == [name |-> E_InvalidCredentialsError, def |-> "static", serial |-> 0]

_get_error_code_name(error_code) ==
  IF EndsWith(error_code, S_Error) THEN error_code ELSE error_code \o S_Error

RECURSIVE SubWordStart(_)
\* re.sub("(.)([A-Z][a-z]+)", r"\1_\2", s): the matches from left to right,
\* none overlapping another
SubWordStart(s) ==
  IF s = <<>> THEN <<>>
  ELSE IF Len(s) >= 3 /\ s[2] \in 65..90 /\ s[3] \in 97..122
  THEN LET j == CHOOSE k \in 3..Len(s) :
                  /\ \A h \in 3..k : s[h] \in 97..122
                  /\ (k < Len(s) => s[k + 1] \notin 97..122)
       IN <<s[1], 95>> \o SubSeq(s, 2, j) \o SubWordStart(SubSeq(s, j + 1, Len(s)))
  ELSE <<Head(s)>> \o SubWordStart(Tail(s))

RECURSIVE SubUpperAfterLower(_)
\* re.sub("([a-z0-9])([A-Z])", r"\1_\2", s)
SubUpperAfterLower(s) ==
  IF s = <<>> THEN <<>>
  ELSE IF Len(s) >= 2 /\ s[1] \in (97..122) \cup (48..57) /\ s[2] \in 65..90
  THEN <<s[1], 95, s[2]>> \o SubUpperAfterLower(SubSeq(s, 3, Len(s)))
  ELSE <<Head(s)>> \o SubUpperAfterLower(Tail(s))

_lowercase_api_name(name) == Lower(SubUpperAfterLower(SubWordStart(name)))

\* the name of an action on the command line when the schema gives no
\* cli_name: method_name.replace("_", "-")
cmdline_name(name) ==
  LET method_name == _lowercase_api_name(name)
  IN [i \in 1..Len(method_name) |-> IF method_name[i] = 95 THEN 45 ELSE method_name[i]]

\* the serial-th class made by _build_exception
_build_exception(name, serial) == [name |-> name, def |-> "generated", serial |-> serial]

\* setattr(self, error_name, error)
add_error(container, error_name, error) == DictUpdate(container, [k \in {error_name} |-> error])

\* getattr(self, error_name, None)
lookup_error(container, error_name) ==
  IF error_name \in DOMAIN container THEN container[error_name] ELSE NoClass

RECURSIVE SchemaErrorCodes(_)
\* the error codes in the order the three nested loops of _build_exceptions visit them
SchemaErrorCodes(schema) ==
  IF schema = <<>> THEN <<>>
  ELSE LET vs == Head(schema).versions
           RECURSIVE OfVersions(_)
           OfVersions(i) == IF i > Len(vs) THEN <<>> ELSE vs[i][2].errors \o OfVersions(i + 1)
       IN OfVersions(1) \o SchemaErrorCodes(Tail(schema))

\* an iteration that registers the class it made whatever is registered
BuildIteration_NoLookup(codes, i, container) ==
  LET exception_name == _get_error_code_name(codes[i])
      exception_type == _build_exception(exception_name, i)
  IN add_error(container, exception_name, exception_type)

\* the body of the innermost loop of _build_exceptions, for the i-th code
BuildIteration(codes, i, container) ==
  LET exception_name == _get_error_code_name(codes[i])
      exception_type == _build_exception(exception_name, i)
  IN IF lookup_error(container, exception_name) = NoClass
     THEN add_error(container, exception_name, exception_type)
     ELSE container

RECURSIVE BuildExceptionsFrom(_, _, _)
\* the loops of _build_exceptions from the i-th code on; each iteration is
\* run to its end before the next one starts
BuildExceptionsFrom(codes, i, container) ==
  IF i > Len(codes) THEN container
  ELSE LET registered == BuildIteration(codes, i, container)
       IN IF registered = container
          THEN BuildExceptionsFrom(codes, i + 1, container)
          ELSE BuildExceptionsFrom(codes, i + 1, registered)

_build_exceptions(schema) == BuildExceptionsFrom(SchemaErrorCodes(schema), 1, EmptyDict)

\* the module-level registry once the module is imported: built from the
\* schema, then the five add_error calls
errors ==
  add_error(
    add_error(
      add_error(
        add_error(
          add_error(_build_exceptions(SCHEMA), E_MultiError, MultiError),
          E_Unauthorised, UnauthorisedError),
        E_SignatureDoesNotMatchError, SignatureDoesNotMatchError),
      E_AuthFailureError, AuthFailureError),
    E_InvalidCredentialsError, InvalidCredentialsError)

\* the five add_error calls at module level, in the order of the source
FixedErrors ==
  <<<<E_MultiError, MultiError>>, <<E_Unauthorised, UnauthorisedError>>,
    <<E_SignatureDoesNotMatchError, SignatureDoesNotMatchError>>,
    <<E_AuthFailureError, AuthFailureError>>,
    <<E_InvalidCredentialsError, InvalidCredentialsError>>>>

\* the population of the registry while the module is imported: codes are
\* the error codes of the schema in the order of the loops, i the code the
\* loop is at, fixed the number of module-level add_error calls made
Population(codes, i, fixed, container) ==
  [codes |-> codes, i |-> i, fixed |-> fixed, container |-> container]

\* the registry once the module is imported
Imported ==
  Population(SchemaErrorCodes(SCHEMA), Len(SchemaErrorCodes(SCHEMA)) + 1, Len(FixedErrors),
             errors)

(***************************************************************************)
(* Response bodies and the exceptions built from them.                     *)
(* A body is text that does not start with "{" (kind "text", or "array"    *)
(* when it is a JSON array), text that starts with "{" and is not JSON     *)
(* ("malformed"), or a JSON object ("object").  A JSON object is           *)
(* [t |-> "object", v |-> key -> value], a JSON string a PyS, null PyNone.  *)
(***************************************************************************)
JObj(f) == [t |-> "object", v |-> f]

TextBody == [kind |-> "text", data |-> PyNone]
ArrayBody == [kind |-> "array", data |-> PyL(<<>>)]
\* the JSON text of the string v (v in double quotes)
StringBody(v) == [kind |-> "string", data |-> PyS(v)]
MalformedBody == [kind |-> "malformed", data |-> PyNone]
ObjectBody(f) == [kind |-> "object", data |-> JObj(f)]
\* message=None
NoMessage == [kind |-> "none", data |-> PyNone]

\* an exception of the HTTPError family
Instance(cls, code, message, message_data, error_code, error_message, sub) ==
  [cls |-> cls, code |-> code, message |-> message, message_data |-> message_data,
   error_code |-> error_code, error_message |-> error_message, errors |-> sub]

NoInstance == Instance(NoClass, 0, NoMessage, PyNone, PyNone, PyNone, <<>>)

\* the result of running a constructor: the instance, or the exception it raised
Built(e) == [exc |-> "None", e |-> e]
Failed(exc) == [exc |-> exc, e |-> NoInstance]

\* HTTPError.__init__(self, code, message=None, message_data=None), on an
\* instance of the class cls
HTTPError__init__(cls, code, message, message_data) ==
  IF message.kind = "malformed" THEN Failed("JSONDecodeError")
  ELSE LET parsed == IF message.kind = "object" THEN message.data ELSE PyNone
           md == IF message_data.t = "object" /\ DOMAIN message_data.v /= {}
                 THEN message_data ELSE parsed
       IN IF md.t = "object" /\ DOMAIN md.v /= {}
          THEN IF "error" \notin DOMAIN md.v \/ "message" \notin DOMAIN md.v
               THEN Failed("KeyError")
               ELSE Built(Instance(cls, code, message, md, md.v["error"], md.v["message"], <<>>))
          ELSE Built(Instance(cls, code, message, md, PyNone, PyNone, <<>>))

\* one iteration of the loop of MultiError.__init__: the exception built
\* for sub_error
SubException(code, sub_error) ==
  IF "error" \in DOMAIN sub_error.v /\ sub_error.v["error"] /= PyNone
  THEN LET error_class == lookup_error(errors, _get_error_code_name(sub_error.v["error"].v))
       IN IF error_class /= NoClass
          THEN IF error_class = MultiError
               \* MultiError.__init__(http_code, message) takes no message_data
               THEN Failed("TypeError")
               ELSE HTTPError__init__(error_class, code, NoMessage, sub_error)
          ELSE HTTPError__init__(APIError, code, NoMessage, sub_error)
  ELSE HTTPError__init__(APIError, code, NoMessage, sub_error)

RECURSIVE SubExceptions(_, _, _, _)
\* the loop of MultiError.__init__ from sub-error i on
SubExceptions(code, subs, i, acc) ==
  IF i > Len(subs) THEN [exc |-> "None", list |-> acc]
  ELSE LET exception == SubException(code, subs[i])
       IN IF exception.exc /= "None" THEN [exc |-> exception.exc, list |-> <<>>]
          ELSE SubExceptions(code, subs, i + 1, Append(acc, exception.e))

\* MultiError.__init__(self, http_code, message)
MultiError__init__(http_code, message) ==
  LET base == HTTPError__init__(MultiError, http_code, message, PyNone)
  IN IF base.exc /= "None" THEN base
     ELSE IF base.e.message_data.t /= "object" THEN Failed("TypeError")
     ELSE IF "errors" \notin DOMAIN base.e.message_data.v THEN Failed("KeyError")
     ELSE LET subs == SubExceptions(base.e.code, base.e.message_data.v["errors"], 1, <<>>)
          IN IF subs.exc /= "None" THEN Failed(subs.exc)
             ELSE Built([base.e EXCEPT !.errors = subs.list])

\* error_class(code, message): the constructor of a class of the registry
Construct(error_class, code, message) ==
  IF error_class = MultiError THEN MultiError__init__(code, message)
  ELSE HTTPError__init__(error_class, code, message, PyNone)

(***************************************************************************)
(* run_query: the request it builds and signs.                             *)
(***************************************************************************)
\* hmac.new(key, msg, sha256).digest(): an opaque value determined by both
Hmac(key, msg) == [hmac_key |-> key, hmac_msg |-> msg]

\* the dict that run_query merges into params
FixedFields(access_key, action, timestamp, version) ==
  [k \in {S_access_key_id, S_action, S_signature_version, S_signature_method,
          S_timestamp, S_version} |->
     CASE k = S_access_key_id -> access_key
       [] k = S_action -> action
       [] k = S_signature_version -> S_2
       [] k = S_signature_method -> S_HmacSHA256
       [] k = S_timestamp -> timestamp
       [] k = S_version -> version]

\* MergeFixed, except that the caller's entries win over the fixed fields
MergeFixed_CallerWins(params, fixed) == DictUpdate(fixed, params)

\* params.update({...}): the fixed fields replace entries of the same name
MergeFixed(params, fixed) == DictUpdate(params, fixed)

\* SignedParams, except that the pairs come in descending order of the keys
SignedParams_Descending(params) ==
  LET keys == SortedKeys(DOMAIN params)
  IN Join(<<38>>, [i \in 1..Len(keys) |->
                     quote(keys[Len(keys) + 1 - i], {126}) \o <<61>>
                     \o quote(params[keys[Len(keys) + 1 - i]], {126})])

\* "&".join("%s=%s" % (quote(key, safe="~"), quote(value, safe="~"))
\*          for key, value in sorted(params.items()))
SignedParams(params) ==
  LET keys == SortedKeys(DOMAIN params)
  IN Join(<<38>>, [i \in 1..Len(keys) |->
                     quote(keys[i], {126}) \o <<61>> \o quote(params[keys[i]], {126})])

\* SignedHost, except that the port is never signed
SignedHost_NoPort(p) == p.host

\* "%s:%d" % (host, port) if port is not None else host
SignedHost(p) == IF p.has_port THEN p.host \o <<58>> \o IntToStr(p.port) ELSE p.host

\* "%s\n%s\n%s\n%s" % (method, signed_host, path, signed_params)
ToSign(method, signed_host, path, signed_params) ==
  Join(<<10>>, <<method, signed_host, path, signed_params>>)

\* PostBody, except that the key of the HMAC is appended to the text
PostBody_LeaksKey(signed_params, digest) ==
  [text |-> signed_params \o digest.hmac_key \o S_amp_signature_eq,
   signature |-> [quoted_b64 |-> digest]]

\* signed_params += "&signature=%s" % quote(b64encode(digest)): the text up
\* to and including "&signature=", followed by the encoded digest
PostBody(signed_params, digest) ==
  [text |-> signed_params \o S_amp_signature_eq, signature |-> [quoted_b64 |-> digest]]

\* the headers fetch sends: {"Host": signed_host} and the content type
FetchHeaders(signed_host) ==
  [h \in {"Host", "Content-type"} |-> IF h = "Host" THEN signed_host ELSE S_form_urlencoded]

\* run_query up to the call of fetch: the locals, or the exception of parse
run_query(access_key, secret_key, action, params0, uri, version, timestamp) ==
  LET params == MergeFixed(params0, FixedFields(access_key, action, timestamp, version))
      p == parse(uri)
      signed_host == SignedHost(p)
      path == IF p.path = <<>> THEN <<47>> ELSE p.path
      url == IF p.path = <<>> THEN uri \o <<47>> ELSE uri
      signed_params == SignedParams(params)
      to_sign == ToSign(S_POST, signed_host, path, signed_params)
      digest == Hmac(secret_key, to_sign)
  IN [exc |-> p.exc, params |-> params, signed_host |-> signed_host, path |-> path,
      url |-> url, to_sign |-> to_sign,
      post_body |-> PostBody(signed_params, digest),
      headers |-> FetchHeaders(signed_host)]

(***************************************************************************)
(* The inputs of the model: client facades, arguments, server responses.    *)
(***************************************************************************)
\* "https://h"
U_plain == <<104, 116, 116, 112, 115, 58, 47, 47, 104>>
\* "https://h:80"
U_port == <<104, 116, 116, 112, 115, 58, 47, 47, 104, 58, 56, 48>>
\* "https://h:80/api"
U_port_path == <<104, 116, 116, 112, 115, 58, 47, 47, 104, 58, 56, 48, 47, 97, 112, 105>>
\* "http://h/api"
U_http_path == <<104, 116, 116, 112, 58, 47, 47, 104, 47, 97, 112, 105>>
\* "https://h:/a"
U_empty_port == <<104, 116, 116, 112, 115, 58, 47, 47, 104, 58, 47, 97>>
\* "ftp://h"
U_bad_scheme == <<102, 116, 112, 58, 47, 47, 104>>
\* "AK"
ACCESS_KEY == <<65, 75>>
\* "SK"
SECRET_KEY == <<83, 75>>
\* "S2"
SECRET_KEY_2 == <<83, 50>>
\* "2026-11-01T20:21:53Z"
T_1 == <<50, 48, 50, 54, 45, 49, 49, 45, 48, 49, 84, 50, 48, 58, 50, 49, 58, 53, 51, 90>>
\* "2026-11-01T20:21:54Z"
T_2 == <<50, 48, 50, 54, 45, 49, 49, 45, 48, 49, 84, 50, 48, 58, 50, 49, 58, 53, 52, 90>>
\* "group1"
V_group1 == <<103, 114, 111, 117, 112, 49>>
\* "g"
V_g == <<103>>
\* "a~&"
V_special == <<97, 126, 38>>
\* "x,y"
V_csv == <<120, 44, 121>>
\* "1,2"
V_csv_int == <<49, 44, 50>>
\* "1=2"
V_map_1 == <<49, 61, 50>>
\* "12=3"
V_map_2 == <<49, 50, 61, 51>>
\* "Foo"
A_Foo == <<70, 111, 111>>
\* "Evil"
V_Evil == <<69, 118, 105, 108>>
\* "1"
V_1 == <<49>>
\* "zz"
V_zz == <<122, 122>>
\* "x"
K_x == <<120>>
\* "y"
K_y == <<121>>
\* "a&b"
K_amp == <<97, 38, 98>>
\* "c=d"
V_eq == <<99, 61, 100>>
\* "m"
V_m == <<109>>
\* "n"
V_n == <<110>>
\* "&"
V_amp == <<38>>
\* "%26"
V_pct == <<37, 50, 54>>

\* an instance of API, APIv2 or of a class made by api_factory(schema,
\* version): class_schema is the schema the class's methods were generated
\* from, schema the schema= argument of the constructor, version the class
\* attribute that call() reads, rq_version the version that the class's
\* _run_query hands to run_query
Facade(cls, class_schema, uri, schema, json, version, rq_version) ==
  [cls |-> cls, class_schema |-> class_schema, uri |-> uri, access_key |-> ACCESS_KEY,
   secret_key |-> SECRET_KEY, json |-> json, schema |-> schema, version |-> version,
   rq_version |-> rq_version]

\* class API(api_factory(_schema))
API(uri, schema, json) ==
  Facade("API", SCHEMA, uri, schema, json, LATEST_VERSION, LATEST_VERSION)

\* class APIv2(api_factory(_schema, version=FUTURE_VERSION)) with
\* _run_query = staticmethod(partial(run_query, version=FUTURE_VERSION))
APIv2(uri, schema, json) ==
  Facade("APIv2", SCHEMA, uri, schema, json, FUTURE_VERSION, FUTURE_VERSION)

\* api_factory(schema, version=version): _run_query is inherited from _API
\* and leaves run_query's version at its default
api_factory(uri, schema, json, version) ==
  Facade("api_factory", schema, uri, schema, json, version, LATEST_VERSION)

Facades ==
  {API(U_plain, SCHEMA, FALSE), API(U_port_path, SCHEMA, TRUE),
   APIv2(U_http_path, SCHEMA, FALSE), API(U_empty_port, CustomSchema, FALSE),
   api_factory(U_port, CustomSchema, FALSE, FUTURE_VERSION),
   API(U_bad_scheme, SCHEMA, FALSE)}

Timestamps == {T_1, T_2}

\* the i-th item of the lists handed to a list parameter
ItemAt(type, i) == IF type = "integer" THEN PyI(i) ELSE PyS(<<119 + i>>)

\* the values tried for a parameter of each type
TypeValues(p) ==
  CASE p.type \in {"unicode", "unicode title", "unicode line"} -> {PyS(V_g), PyS(V_special)}
    [] p.type = "integer" -> {PyI(7)}
    [] p.type = "boolean" -> {PyB(TRUE), PyB(FALSE), PyI(0)}
    [] p.type = "file" -> {PyS(PathReadable), PyS(PathMissing)}
    [] p.type = "list" ->
         {PyL([i \in 1..n |-> ItemAt(p.item.type, i)]) : n \in 0..MaxListLen}
         \cup {IF p.item.type = "integer" THEN PyS(V_csv_int) ELSE PyS(V_csv)}
    [] p.type = "mapping" ->
         {PyD(<<>>), PyD(<< <<PyI(1), PyI(2)>> >>), PyS(V_map_1), PyS(V_map_2)}
    [] p.type = "structure" ->
         {PyD(<< <<PyS(N_depth), PyI(7)>> >>),
          PyD(<< <<PyS(N_depth), PyI(7)>>, <<PyS(N_label), PyS(V_g)>> >>),
          PyD(<< <<PyS(N_label), PyS(V_g)>> >>),
          PyD(<< <<PyS(N_depth), PyI(7)>>, <<PyS(N_bogus), PyI(1)>> >>)}

ArgValues(p) == TypeValues(p) \cup (IF p.optional THEN {p.default} ELSE {})

ParamNamed(parameters, n) ==
  parameters[CHOOSE i \in 1..Len(parameters) : parameters[i].name = n]

\* the keyword arguments tried for an action: any subset of its parameters,
\* each with one of its values, with or without an undeclared name
KwargsOf(parameters) ==
  LET names == {parameters[i].name : i \in 1..Len(parameters)}
      declared == UNION {
        {kw \in [D -> UNION {ArgValues(ParamNamed(parameters, n)) : n \in D}] :
           \A n \in D : kw[n] \in ArgValues(ParamNamed(parameters, n))} : D \in SUBSET names}
  IN declared \cup {DictUpdate(kw, [k \in {N_bogus} |-> PyI(1)]) : kw \in declared}

\* the key/value pairs tried for call_arbitrary
ArbitraryArguments ==
  {EmptyDict,
   [k \in {K_x} |-> V_1],
   [k \in {S_action} |-> V_Evil],
   [k \in {S_version, S_timestamp} |-> V_1],
   [k \in {S_access_key_id, S_signature_version, S_signature_method} |-> V_zz],
   [k \in {K_amp, <<115, 105, 103, 110, 97, 116, 117, 114, 101>>} |-> V_eq]}

ActionNames(schema) == {schema[i].name : i \in 1..Len(schema)}

\* a server response: status 0 stands for no response at all
Response(status, body) == [status |-> status, body |-> body]

\* requests: response.ok
ResponseOk(status) == status < 400

\* {"error": code, "message": message}
ErrorPayload(code, message) ==
  [k \in {"error", "message"} |-> IF k = "error" THEN code ELSE PyS(message)]

\* {"error": code, "message": message, "errors": subs}
MultiPayload(code, message, subs) ==
  [k \in {"error", "message", "errors"} |->
     IF k = "error" THEN code ELSE IF k = "message" THEN PyS(message) ELSE subs]

ErrorCodes ==
  {PyS(E_UnknownComputer), PyS(E_UnknownAlertTypeError), PyS(E_TotallyUnknownCode),
   PyS(E_Unauthorised), PyS(E_AuthFailure), PyS(E_SignatureDoesNotMatch),
   PyS(E_InvalidCredentials), PyS(E_MultiError), PyNone}

\* the entries of a multi-error payload's "errors" list
SubErrors ==
  {JObj(ErrorPayload(PyS(E_UnknownComputer), V_n)),
   JObj(ErrorPayload(PyS(E_TotallyUnknownCode), V_n)),
   JObj([k \in {"message"} |-> PyS(V_n)]),
   JObj([k \in {"error"} |-> PyS(E_UnknownComputer)]),
   JObj(MultiPayload(PyS(E_MultiError), V_n, <<>>))}

SubErrorLists == UNION {[1..n -> SubErrors] : n \in 0..MaxSubErrors}

ErrorBodies ==
  {TextBody, MalformedBody, ObjectBody(EmptyDict)}
  \cup {ObjectBody(ErrorPayload(c, V_m)) : c \in ErrorCodes}
  \cup {ObjectBody([k \in {"error"} |-> PyS(E_UnknownComputer)])}
  \cup {ObjectBody(MultiPayload(PyS(E_MultiError), V_m, l)) : l \in SubErrorLists}

\* every response of the model
Responses ==
  {Response(200, b) : b \in {ObjectBody(EmptyDict), ArrayBody, TextBody, StringBody(V_g)}}
  \cup {Response(400, b) : b \in ErrorBodies}
  \cup {Response(status, ObjectBody(ErrorPayload(c, V_m))) :
          status \in {304, 500}, c \in {PyS(E_UnknownComputer), PyS(E_TotallyUnknownCode)}}
  \cup {Response(0, TextBody)}

\* the few responses of the specification that explores the encoder
FewResponses ==
  {Response(200, ObjectBody(EmptyDict)), Response(200, TextBody),
   Response(400, ObjectBody(ErrorPayload(PyS(E_UnknownComputer), V_m)))}

(***************************************************************************)
(* The state machine: a client facade and the call made on it.             *)
(*   facade    the client that makes the call                               *)
(*   pc        "idle" before the call, "posted" while the POST is in flight,*)
(*             "done" once the call has returned or raised                  *)
(*   posts     the number of POSTs the transport has issued                 *)
(*   call      the call: how it was made (via), the method, the positional  *)
(*             (args) and keyword (keywords) arguments of the caller, the   *)
(*             arguments by name as Python bound them (supplied) and those  *)
(*             that reached call() or call_arbitrary() (kwargs), and the    *)
(*             time of the call                                             *)
(*   encoded   what _encode_struct_fields returned                          *)
(*   arguments the dict handed to run_query, as run_query leaves it         *)
(*   signing   the locals of run_query when it calls fetch                  *)
(*   sent      the request that fetch posted                                *)
(*   response  the server's response                                        *)
(*   outcome   how the call ended                                           *)
(*   prev      the call before this one (its inputs and its request)        *)
(*   module    the run of the Ansible module landscape_computer_remove:     *)
(*             its computer_name parameter, its position in main (step),    *)
(*             the computers it was told of, and how it ended (exit)        *)
(***************************************************************************)
NoCall == [via |-> "none", method |-> <<>>, args |-> <<>>, keywords |-> EmptyDict,
           supplied |-> EmptyDict, kwargs |-> EmptyDict, timestamp |-> <<>>]
NoEncoded == [exc |-> "none", msg |-> "", out |-> EmptyDict]
NoSigning == [to_sign |-> <<>>, signed_host |-> <<>>, path |-> <<>>, params |-> EmptyDict]
NoRequest == [url |-> <<>>, headers |-> EmptyDict,
              post_body |-> [text |-> <<>>, signature |-> [quoted_b64 |-> Hmac(<<>>, <<>>)]]]
NoResponse == Response(0, NoMessage)
NoPrev == [call |-> NoCall, secret_key |-> <<>>, uri |-> <<>>, signing |-> NoSigning,
           sent |-> NoRequest]

\* no Ansible module is running
NoModule == [computer_name |-> <<>>, step |-> "none", computers |-> <<>>, changed |-> FALSE,
             response |-> "", computer_id |-> 0, exit |-> "none"]

\* how a call ended: kind is "none", "returned" or "raised"; exc names the
\* exception type, "HTTPError" standing for the whole HTTPError family, whose
\* instance is e
Returned(value) == [kind |-> "returned", exc |-> "None", msg |-> "", e |-> NoInstance, value |-> value]
Raised(exc, msg) == [kind |-> "raised", exc |-> exc, msg |-> msg, e |-> NoInstance, value |-> PyNone]
RaisedHTTP(e) == [kind |-> "raised", exc |-> "HTTPError", msg |-> "", e |-> e, value |-> PyNone]
NoOutcome == [kind |-> "none", exc |-> "None", msg |-> "", e |-> NoInstance, value |-> PyNone]

\* the fields of an action as _API.call hands them to _encode_struct_fields
FieldsOf(parameters) == [i \in 1..Len(parameters) |-> <<parameters[i].name, parameters[i]>>]

\* self._run_query(self._access_key, self._secret_key, action, params,
\* self._uri, ...) of the client self, from the first line of run_query to
\* the call of fetch, as a step of the machine: params is the dict object
\* it was handed
RunQueryWith(self, params, action, timestamp) ==
  LET q == run_query(self.access_key, self.secret_key, action, params, self.uri,
                     self.rq_version, timestamp)
  IN /\ arguments' = q.params
     /\ IF q.exc /= "None"
        THEN /\ outcome' = Raised(q.exc, "parse")
             /\ pc' = "done"
             /\ UNCHANGED <<posts, signing, sent>>
        ELSE /\ signing' = [to_sign |-> q.to_sign, signed_host |-> q.signed_host,
                            path |-> q.path, params |-> q.params]
             /\ sent' = [url |-> q.url, headers |-> q.headers, post_body |-> q.post_body]
             /\ posts' = posts + 1
             /\ pc' = "posted"
             /\ outcome' = NoOutcome

RunQueryStep(params, action, timestamp) == RunQueryWith(facade, params, action, timestamp)

\* the body of _API.call(method, **kwargs)
CallBody(method, kwargs, timestamp) ==
  /\ UNCHANGED <<facade, response, prev>>
  /\ IF ~HasAction(facade.schema, method, facade.version)
     THEN /\ outcome' = Raised("KeyError", "schema")
          /\ pc' = "done"
          /\ UNCHANGED <<posts, encoded, arguments, signing, sent>>
     ELSE LET action == SchemaAction(facade.schema, method, facade.version)
              enc == _encode_struct_fields(FieldsOf(action.parameters), kwargs, <<>>)
          IN /\ encoded' = enc
             /\ IF enc.exc /= "None"
                THEN /\ outcome' = Raised(enc.exc, enc.msg)
                     /\ pc' = "done"
                     /\ UNCHANGED <<posts, arguments, signing, sent>>
                ELSE RunQueryStep(enc.out, method, timestamp)

\* _API.call(method, **kwargs), called directly
Call(method, kwargs, timestamp) ==
  /\ pc = "idle"
  /\ call' = [via |-> "call", method |-> method, args |-> <<>>, keywords |-> kwargs,
              supplied |-> kwargs, kwargs |-> kwargs, timestamp |-> timestamp]
  /\ CallBody(method, kwargs, timestamp)

\* the names of the required parameters
RequiredNames(parameters) ==
  {parameters[i].name : i \in {j \in 1..Len(parameters) : ~parameters[j].optional}}

DeclaredNames(parameters) == {parameters[i].name : i \in 1..Len(parameters)}

\* the parameter list that _make_api_caller would hand to _change_function
\* if it kept the order of the schema
PositionalParameters_SchemaOrder(parameters) == parameters

\* positional_parameters of _make_api_caller: the required parameters in
\* the order of the schema, then the optional ones in the order of the schema
PositionalParameters(parameters) ==
  LET IsRequired(p) == ~p.optional
      IsOptional(p) == p.optional
  IN SelectSeq(parameters, IsRequired) \o SelectSeq(parameters, IsOptional)

\* the binding of a call f(*args, **kwargs) against the signature that
\* _change_function built from positional (self left out): the arguments by
\* name, or the TypeError of the interpreter
Bind(positional, args, kwargs) ==
  LET names == {positional[i].name : i \in 1..Len(positional)}
      taken == IF Len(args) < Len(positional) THEN Len(args) ELSE Len(positional)
      by_position == {positional[i].name : i \in 1..taken}
      index(n) == CHOOSE i \in 1..Len(positional) : positional[i].name = n
      supplied == [n \in by_position \cup ((DOMAIN kwargs) \ by_position) |->
                     IF n \in by_position THEN args[index(n)] ELSE kwargs[n]]
      required == {positional[i].name : i \in {j \in 1..Len(positional) :
                                                  ~positional[j].optional}}
      msg == IF (DOMAIN kwargs) \ names /= {} THEN "unexpected keyword argument"
             ELSE IF (DOMAIN kwargs) \cap by_position /= {}
             THEN "multiple values for argument"
             ELSE IF Len(args) > Len(positional) THEN "too many positional arguments"
             ELSE IF required \ (DOMAIN supplied) /= {} THEN "missing positional argument"
             ELSE ""
  IN [exc |-> IF msg = "" THEN "None" ELSE "TypeError", msg |-> msg, supplied |-> supplied,
      _args |-> [n \in names |-> IF n \in DOMAIN supplied THEN supplied[n]
                                 ELSE positional[index(n)].default]]

\* the method that _make_api_caller generates for an action, called as
\* method(*args, **kwargs): Python binds the arguments against the signature
\* that _change_function built, and _caller forwards every parameter to
\* call()
CallMethod(method, args, kwargs, timestamp) ==
  /\ pc = "idle"
  /\ LET parameters == SchemaAction(facade.class_schema, method, facade.version).parameters
         bound == Bind(PositionalParameters(parameters), args, kwargs)
     IN IF bound.exc /= "None"
        THEN /\ call' = [via |-> "method", method |-> method, args |-> args,
                         keywords |-> kwargs, supplied |-> bound.supplied,
                         kwargs |-> EmptyDict, timestamp |-> timestamp]
             /\ outcome' = Raised(bound.exc, bound.msg)
             /\ pc' = "done"
             /\ UNCHANGED <<facade, response, prev, posts, encoded, arguments, signing, sent>>
        ELSE /\ call' = [via |-> "method", method |-> method, args |-> args,
                         keywords |-> kwargs, supplied |-> bound.supplied,
                         kwargs |-> bound._args, timestamp |-> timestamp]
             /\ CallBody(method, bound._args, timestamp)

\* _API.call_arbitrary(method, arguments)
CallArbitrary(method, args, timestamp) ==
  /\ pc = "idle"
  /\ call' = [via |-> "call_arbitrary", method |-> method, args |-> <<>>,
              keywords |-> EmptyDict, supplied |-> args, kwargs |-> args,
              timestamp |-> timestamp]
  /\ UNCHANGED <<facade, response, prev, encoded>>
  /\ RunQueryStep(args, method, timestamp)

\* MapError, except that an error whose code the registry does not know is
\* raised as an APIError
MapError_WrapsUnknown(e) ==
  IF e.error_code /= PyNone
  THEN LET error_class == lookup_error(errors, _get_error_code_name(e.error_code.v))
       IN IF error_class /= NoClass
          THEN LET raised == Construct(error_class, e.code, e.message)
               IN IF raised.exc /= "None" THEN Raised(raised.exc, "constructor")
                  ELSE RaisedHTTP(raised.e)
          ELSE RaisedHTTP([e EXCEPT !.cls = APIError])
  ELSE RaisedHTTP(e)

\* what run_query raises for the HTTPError e that fetch raised
MapError(e) ==
  IF e.error_code /= PyNone
  THEN LET error_class == lookup_error(errors, _get_error_code_name(e.error_code.v))
       IN IF error_class /= NoClass
          THEN LET raised == Construct(error_class, e.code, e.message)
               IN IF raised.exc /= "None" THEN Raised(raised.exc, "constructor")
                  ELSE RaisedHTTP(raised.e)
          ELSE RaisedHTTP(e)
  ELSE RaisedHTTP(e)

\* the result is handed back as it is
JsonLoads_Undecoded(body) == Returned(body)

\* json.loads(result) in _API.run_query
JsonLoads(body) ==
  CASE body.kind \in {"object", "array", "string"} -> Returned(body.data)
    [] OTHER -> Raised("JSONDecodeError", "json.loads")

\* the rest of the call once the server has answered r: fetch, the except
\* clause of run_query, and the decoding in _API.run_query
Respond(r) ==
  /\ pc = "posted"
  /\ response' = r
  /\ pc' = "done"
  /\ UNCHANGED <<facade, posts, call, encoded, arguments, signing, sent, prev>>
  /\ outcome' =
       IF r.status = 0 THEN Raised("ConnectionError", "requests")
       ELSE IF ~ResponseOk(r.status)
       THEN LET fetched == HTTPError__init__(HTTPError, r.status, r.body, PyNone)
            IN IF fetched.exc /= "None" THEN Raised(fetched.exc, "constructor")
               ELSE MapError(fetched.e)
       ELSE IF facade.json THEN Returned(r.body)
       ELSE JsonLoads(r.body)

\* no call has been made yet
Idle ==
  /\ pc = "idle"
  /\ posts = 0
  /\ call = NoCall
  /\ encoded = NoEncoded
  /\ arguments = EmptyDict
  /\ signing = NoSigning
  /\ sent = NoRequest
  /\ response = NoResponse
  /\ outcome = NoOutcome
  /\ prev = NoPrev
  /\ registry = Imported
  /\ module = NoModule

Init == facade \in Facades /\ Idle

CallAction ==
  /\ pc = "idle"
  /\ \E method \in ActionNames(facade.schema), timestamp \in Timestamps :
       \E kwargs \in KwargsOf(SchemaAction(facade.schema, method, facade.version).parameters) :
         Call(method, kwargs, timestamp)
  /\ UNCHANGED <<registry, module>>

RECURSIVE ArgumentPrefixes(_, _)
\* the positional arguments of length n tried for a method: a value for
\* each of the first n parameters of its signature
ArgumentPrefixes(positional, n) ==
  IF n = 0 THEN {<<>>}
  ELSE {Append(args, v) : args \in ArgumentPrefixes(positional, n - 1),
                          v \in ArgValues(positional[n])}

\* the positional arguments tried for a method: those of every length up
\* to the length of its signature, and one argument too many
PositionalArgs(positional) ==
  UNION {ArgumentPrefixes(positional, n) : n \in 0..Len(positional)}
  \cup {[i \in 1..(Len(positional) + 1) |->
           IF i <= Len(positional) THEN CHOOSE v \in TypeValues(positional[i]) : TRUE
           ELSE PyI(1)]}

\* the calls tried for the method of an action: keyword arguments alone, at
\* either time, and positional arguments alone or with a keyword argument
\* for the first parameter of the signature
MethodCalls(parameters) ==
  LET positional == PositionalParameters(parameters)
  IN {[args |-> <<>>, kwargs |-> kwargs, timestamp |-> timestamp] :
        kwargs \in KwargsOf(parameters), timestamp \in Timestamps}
     \cup {[args |-> args, kwargs |-> kwargs, timestamp |-> T_1] :
             args \in PositionalArgs(positional) \ {<<>>},
             kwargs \in {EmptyDict} \cup {[n \in {positional[1].name} |-> v] :
                                           v \in TypeValues(positional[1])}}

CallMethodAction ==
  /\ pc = "idle"
  /\ \E method \in ActionNames(facade.class_schema) :
       \E c \in MethodCalls(SchemaAction(facade.class_schema, method,
                                         facade.version).parameters) :
         CallMethod(method, c.args, c.kwargs, c.timestamp)
  /\ UNCHANGED <<registry, module>>

CallArbitraryAction ==
  /\ pc = "idle"
  /\ \E method \in {A_CreateAccessGroup, A_Foo}, args \in ArbitraryArguments,
        timestamp \in Timestamps :
       CallArbitrary(method, args, timestamp)
  /\ UNCHANGED <<registry, module>>

RespondAction ==
  /\ pc = "posted"
  /\ \E r \in FewResponses : Respond(r)
  /\ UNCHANGED <<registry, module>>

Next == CallAction \/ CallMethodAction \/ CallArbitraryAction \/ RespondAction

Spec == Init /\ [][Next]_vars

(***************************************************************************)
(* SpecErr: a few calls that reach the server, and every response of the   *)
(* model, for the mapping of error responses to exceptions.                 *)
(***************************************************************************)
ErrFacades ==
  {API(U_plain, SCHEMA, FALSE), API(U_port_path, SCHEMA, TRUE),
   APIv2(U_http_path, SCHEMA, FALSE)}

InitErr == facade \in ErrFacades /\ Idle

\* the keyword arguments of the calls of SpecErr: the required parameters
\* and nothing else, and for CreateAccessGroup name="group1" as well
ErrKwargs(method) ==
  {[n \in RequiredNames(SchemaAction(facade.schema, method, facade.version).parameters)
      |-> PyS(V_g)]}
  \cup (IF method = A_CreateAccessGroup THEN {[n \in {N_name} |-> PyS(V_group1)]} ELSE {})

\* a call of an action through call()
CallErrAction ==
  /\ pc = "idle"
  /\ \E method \in {A_CreateAccessGroup, A_AssociateAlert, A_GetScriptCode} :
       \E kwargs \in ErrKwargs(method) : Call(method, kwargs, T_1)
  /\ UNCHANGED <<registry, module>>

\* a call of an action through the method generated for it
CallMethodErrAction ==
  /\ pc = "idle"
  /\ \E method \in {A_CreateAccessGroup, A_GetScriptCode} :
       \E kwargs \in ErrKwargs(method) : CallMethod(method, <<>>, kwargs, T_1)
  /\ UNCHANGED <<registry, module>>

CallArbitraryErrAction ==
  /\ pc = "idle"
  /\ CallArbitrary(A_Foo, EmptyDict, T_1)
  /\ UNCHANGED <<registry, module>>

RespondErrAction ==
  /\ pc = "posted"
  /\ \E r \in Responses : Respond(r)
  /\ UNCHANGED <<registry, module>>

NextErr == CallErrAction \/ CallMethodErrAction \/ CallArbitraryErrAction \/ RespondErrAction

SpecErr == InitErr /\ [][NextErr]_vars

(***************************************************************************)
(* SpecReg: the population of the error registry while the module is       *)
(* imported: _build_exceptions over the error codes of a schema, one       *)
(* iteration at a time, then the five add_error calls of the module.       *)
(***************************************************************************)
\* error codes that the schema declares, one of them ending in "Error"
DeclaredCodes == {E_UnknownComputer, E_Unauthorised, E_UnknownAlertTypeError,
                  E_DuplicateAccessGroup}

\* the error codes of a schema in the order of the loops: the codes of the
\* modelled schema, and every short sequence of declared codes
CodeSequences ==
  {SchemaErrorCodes(SCHEMA)} \cup UNION {[1..n -> DeclaredCodes] : n \in 0..MaxCodes}

InitReg ==
  /\ facade = API(U_plain, SCHEMA, FALSE)
  /\ pc = "idle"
  /\ posts = 0
  /\ call = NoCall
  /\ encoded = NoEncoded
  /\ arguments = EmptyDict
  /\ signing = NoSigning
  /\ sent = NoRequest
  /\ response = NoResponse
  /\ outcome = NoOutcome
  /\ prev = NoPrev
  /\ module = NoModule
  /\ \E codes \in CodeSequences : registry = Population(codes, 1, 0, EmptyDict)

\* one iteration of the innermost loop of _build_exceptions
BuildIterationAction ==
  /\ registry.i <= Len(registry.codes)
  /\ registry' = [registry EXCEPT
                    !.container = BuildIteration(registry.codes, registry.i, @),
                    !.i = @ + 1]
  /\ UNCHANGED <<facade, pc, posts, call, encoded, arguments, signing, sent, response,
                 outcome, prev, module>>

\* the next of the module-level add_error calls, once the loops are over
AddErrorAction ==
  /\ registry.i > Len(registry.codes)
  /\ registry.fixed < Len(FixedErrors)
  /\ registry' = [registry EXCEPT
                    !.container = add_error(@, FixedErrors[registry.fixed + 1][1],
                                            FixedErrors[registry.fixed + 1][2]),
                    !.fixed = @ + 1]
  /\ UNCHANGED <<facade, pc, posts, call, encoded, arguments, signing, sent, response,
                 outcome, prev, module>>

NextReg == BuildIterationAction \/ AddErrorAction

SpecReg == InitReg /\ [][NextReg]_vars

(***************************************************************************)
(* SpecPair: two calls of call_arbitrary, one after the other, the second  *)
(* by a client that may differ from the first in its secret key or its     *)
(* URI; prev keeps the inputs and the request of the first call.           *)
(***************************************************************************)
\* API(uri, access_key, secret_key)
WithSecret(self, secret_key) == [self EXCEPT !.secret_key = secret_key]

PairFacades ==
  {WithSecret(API(uri, CustomSchema, FALSE), secret_key) :
     uri \in {U_plain, U_port_path}, secret_key \in {SECRET_KEY, SECRET_KEY_2}}

\* the arguments tried for the two calls
PairArguments ==
  {[k \in {K_x} |-> v] : v \in {V_1, V_amp, V_pct}}
  \cup {[k \in {K_x, K_y} |-> IF k = K_x THEN v ELSE w] : v \in {V_1, V_zz}, w \in {V_1, V_zz}}

InitPair == facade \in PairFacades /\ Idle

FirstCallAction ==
  /\ pc = "idle"
  /\ \E args \in PairArguments, timestamp \in Timestamps :
       CallArbitrary(A_Foo, args, timestamp)
  /\ UNCHANGED <<registry, module>>

\* call_arbitrary on the client self, once the first call has ended
SecondCall(self, method, args, timestamp) ==
  /\ pc = "done"
  /\ prev = NoPrev
  /\ prev' = [call |-> call, secret_key |-> facade.secret_key, uri |-> facade.uri,
              signing |-> signing, sent |-> sent]
  /\ facade' = self
  /\ call' = [via |-> "call_arbitrary", method |-> method, args |-> <<>>,
              keywords |-> EmptyDict, supplied |-> args, kwargs |-> args,
              timestamp |-> timestamp]
  /\ response' = NoResponse
  /\ UNCHANGED encoded
  /\ RunQueryWith(self, args, method, timestamp)

SecondCallAction ==
  /\ pc = "done"
  /\ \E self \in PairFacades, args \in PairArguments, timestamp \in Timestamps :
       SecondCall(self, A_Foo, args, timestamp)
  /\ UNCHANGED <<registry, module>>

NextPair == FirstCallAction \/ SecondCallAction \/ RespondAction

SpecPair == InitPair /\ [][NextPair]_vars

(***************************************************************************)
(* SpecEnc: calls of the two actions of the schema that take a list or a   *)
(* mapping, with the list and the mapping in their native form and in      *)
(* their string form.                                                      *)
(***************************************************************************)
\* "a,b"
V_a_comma_b == <<97, 44, 98>>
\* "a\,b,c"
V_escaped == <<97, 92, 44, 98, 44, 99>>
\* "1=2,3=4"
V_map_pairs == <<49, 61, 50, 44, 51, 61, 52>>

\* the items of the native lists: two integers, or "x" and "a,b"
EncItems(type) ==
  IF type = "integer" THEN {PyI(1), PyI(2)} ELSE {PyS(<<120>>), PyS(V_a_comma_b)}

\* the values handed to a list parameter: every native list of up to
\* MaxListLen items, and the comma-separated strings
EncLists(type) ==
  {PyL(s) : s \in UNION {[1..n -> EncItems(type)] : n \in 0..MaxListLen}}
  \cup (IF type = "integer" THEN {PyS(V_csv_int)} ELSE {PyS(V_csv), PyS(V_escaped)})

\* the values handed to a mapping parameter: native mappings with integer
\* keys, and the key=value strings, the last one without a "="
EncMappings ==
  {PyD(<<>>), PyD(<< <<PyI(1), PyI(2)>> >>), PyD(<< <<PyI(2), PyI(1)>>, <<PyI(1), PyI(2)>> >>),
   PyS(V_map_1), PyS(V_map_2), PyS(V_map_pairs), PyS(V_1)}

\* the keyword arguments of the calls of SpecEnc
EncKwargs(method) ==
  IF method = A_AssociateAlert
  THEN {[n \in {N_name, N_tags} |-> IF n = N_name THEN PyS(V_g) ELSE l] :
          l \in EncLists("unicode")}
  ELSE {[n \in {N_computer_ids, N_existing_ids} |-> IF n = N_computer_ids THEN l ELSE m] :
          l \in EncLists("integer"), m \in EncMappings}

InitEnc == facade = API(U_plain, SCHEMA, FALSE) /\ Idle

\* a call of an action through call()
CallEncAction ==
  /\ pc = "idle"
  /\ \E method \in {A_AssociateAlert, A_AcceptPendingComputers} :
       \E kwargs \in EncKwargs(method) : Call(method, kwargs, T_1)
  /\ UNCHANGED <<registry, module>>

NextEnc == CallEncAction \/ RespondAction

SpecEnc == InitEnc /\ [][NextEnc]_vars

(***************************************************************************)
(* SpecCsv: _parse_csv_list_safely applied to every string of up to        *)
(* MaxCsvLen characters over a letter, the comma and the backslash; call   *)
(* holds the string, outcome the list of the items yielded.                *)
(***************************************************************************)
\* "a", "," and "\"
CsvAlphabet == {97, 44, 92}

CsvInputs == UNION {[1..n -> CsvAlphabet] : n \in 0..MaxCsvLen}

\* the call _parse_csv_list_safely(value), before its first step
CsvCall(value) ==
  [via |-> "_parse_csv_list_safely", method |-> <<>>, args |-> <<PyS(value)>>,
   keywords |-> EmptyDict, supplied |-> EmptyDict, kwargs |-> EmptyDict, timestamp |-> <<>>]

InitCsv ==
  /\ facade = API(U_plain, SCHEMA, FALSE)
  /\ pc = "idle"
  /\ posts = 0
  /\ \E value \in CsvInputs : call = CsvCall(value)
  /\ encoded = NoEncoded
  /\ arguments = EmptyDict
  /\ signing = NoSigning
  /\ sent = NoRequest
  /\ response = NoResponse
  /\ outcome = NoOutcome
  /\ prev = NoPrev
  /\ registry = Imported
  /\ module = NoModule

\* list(_parse_csv_list_safely(value)): the generator run to its end
ParseCsvAction ==
  /\ pc = "idle"
  /\ call.via = "_parse_csv_list_safely"
  /\ LET items == _parse_csv_list_safely(call.args[1].v)
     IN outcome' = Returned(PyL([i \in 1..Len(items) |-> PyS(items[i])]))
  /\ pc' = "done"
  /\ UNCHANGED <<facade, posts, call, encoded, arguments, signing, sent, response, prev,
                 registry, module>>

NextCsv == ParseCsvAction

SpecCsv == InitCsv /\ [][NextCsv]_vars

(***************************************************************************)
(* SpecRemove: a run of the Ansible module landscape_computer_remove.      *)
(* main() asks the server for the computers, and when one of them has the  *)
(* name computer_name it asks the server to remove a computer; module      *)
(* holds the position of main, the other variables the API call in         *)
(* progress.                                                               *)
(***************************************************************************)
\* "GetComputers"
A_GetComputers == <<71, 101, 116, 67, 111, 109, 112, 117, 116, 101, 114, 115>>
\* "RemoveComputers"
A_RemoveComputers == <<82, 101, 109, 111, 118, 101, 67, 111, 109, 112, 117, 116, 101, 114, 115>>
\* "query"
N_query == <<113, 117, 101, 114, 121>>
\* "limit"
N_limit == <<108, 105, 109, 105, 116>>
\* "offset"
N_offset == <<111, 102, 102, 115, 101, 116>>
\* "with_network"
N_with_network == <<119, 105, 116, 104, 95, 110, 101, 116, 119, 111, 114, 107>>
\* "with_hardware"
N_with_hardware == <<119, 105, 116, 104, 95, 104, 97, 114, 100, 119, 97, 114, 101>>
\* "with_annotations"
N_with_annotations == <<119, 105, 116, 104, 95, 97, 110, 110, 111, 116, 97, 116, 105, 111, 110, 115>>
\* "InvalidQuery"
E_InvalidQuery == <<73, 110, 118, 97, 108, 105, 100, 81, 117, 101, 114, 121>>
\* "UnknownEntityIDs"
E_UnknownEntityIDs == <<85, 110, 107, 110, 111, 119, 110, 69, 110, 116, 105, 116, 121, 73, 68, 115>>

\* the most computers the server reports
MaxComputers == 2

GetComputers ==
  [parameters |-> <<Optional(Param(N_query, "unicode"), PyS(<<>>)),
                    Optional(Param(N_limit, "integer"), PyI(1000)),
                    Optional(Param(N_offset, "integer"), PyI(0)),
                    Optional(Param(N_with_network, "boolean"), PyB(FALSE)),
                    Optional(Param(N_with_hardware, "boolean"), PyB(FALSE)),
                    Optional(Param(N_with_annotations, "boolean"), PyB(FALSE))>>,
   errors |-> <<E_InvalidQuery>>]

RemoveComputers ==
  [parameters |-> <<ListOf(N_computer_ids, Param(<<>>, "integer"))>>,
   errors |-> <<E_UnknownComputer, E_Unauthorised, E_UnknownEntityIDs>>]

\* the two actions of the built-in schema that the module calls
ComputersSchema ==
  << [name |-> A_GetComputers,
      versions |-> << <<LATEST_VERSION, GetComputers>>, <<FUTURE_VERSION, GetComputers>> >>],
     [name |-> A_RemoveComputers,
      versions |-> << <<LATEST_VERSION, RemoveComputers>>,
                      <<FUTURE_VERSION, RemoveComputers>> >>] >>

\* self.API_landscape = API(landscape_url, landscape_key, landscape_secret,
\* landscape_ca)
API_landscape ==
  Facade("API", ComputersSchema, U_plain, ComputersSchema, FALSE, LATEST_VERSION,
         LATEST_VERSION)

\* the computer_name parameters tried: "ab" and "b"
ComputerNames == {<<97, 98>>, <<98>>}

\* the hostnames of the computers the server knows: "a", "ab", "b", "abc"
Hostnames == {<<97>>, <<97, 98>>, <<98>>, <<97, 98, 99>>}

\* a computer as the server reports it
Computer(hostname, id) ==
  JObj([k \in {"hostname", "id"} |-> IF k = "hostname" THEN PyS(hostname) ELSE PyI(id)])

\* the lists of computers the server reports: up to MaxComputers computers
\* of any hostnames in any order, the i-th with the id 100 + i
ComputerLists ==
  UNION {{[i \in 1..n |-> Computer(h[i], 100 + i)] : h \in [1..n -> Hostnames]} :
           n \in 0..MaxComputers}

\* the responses of the server to the module's requests
RemoveResponses ==
  {Response(200, [kind |-> "array", data |-> PyL(l)]) : l \in ComputerLists}
  \cup {Response(200, ObjectBody(EmptyDict)),
        Response(400, ObjectBody(ErrorPayload(PyS(E_UnknownComputer), V_m)))}

\* LandscapeComputerRemove(): the module with its parameters, before main
\* has called anything
LandscapeComputerRemove(computer_name) ==
  [NoModule EXCEPT !.computer_name = computer_name, !.step = "main"]

\* self.computer_name in computers, for a list of hostnames
check_state(self, computers) ==
  \E i \in 1..Len(computers) : computers[i] = self.computer_name

RECURSIVE ComputerIdFrom(_, _, _, _)
\* the loop of get_computer_id from the i-th computer on
ComputerIdFrom(self, computers, i, return_id) ==
  IF i > Len(computers) THEN return_id
  ELSE IF StrIn(computers[i].v["hostname"].v, self.computer_name)
  THEN ComputerIdFrom(self, computers, i + 1, computers[i].v["id"].v)
  ELSE ComputerIdFrom(self, computers, i + 1, return_id)

get_computer_id(self, computers) == ComputerIdFrom(self, computers, 1, -1)

InitRemove ==
  /\ facade = API_landscape
  /\ pc = "idle"
  /\ posts = 0
  /\ call = NoCall
  /\ encoded = NoEncoded
  /\ arguments = EmptyDict
  /\ signing = NoSigning
  /\ sent = NoRequest
  /\ response = NoResponse
  /\ outcome = NoOutcome
  /\ prev = NoPrev
  /\ registry = Imported
  /\ \E computer_name \in ComputerNames : module = LandscapeComputerRemove(computer_name)

\* lsc.get_computers(): the call self.API_landscape.get_computers(), up to
\* its request
GetComputersAction ==
  /\ pc = "idle"
  /\ module.step = "main"
  /\ CallMethod(A_GetComputers, <<>>, EmptyDict, T_1)
  /\ module' = [module EXCEPT !.step = "get_computers"]
  /\ UNCHANGED registry

\* the server answers the request in flight
RespondRemoveAction ==
  /\ pc = "posted"
  /\ \E r \in RemoveResponses : Respond(r)
  /\ UNCHANGED <<registry, module>>

\* how the module ends when the API call has raised
ExitOnError(self) ==
  [self EXCEPT !.step = "exit",
               !.exit = IF outcome.exc = "HTTPError" THEN "fail_json" ELSE "exception"]

\* main() from the return of get_computers on: check_state, and then
\* either get_computer_id and delete_computer up to its request, or
\* exit_json
MainAction ==
  /\ pc = "done"
  /\ module.step = "get_computers"
  /\ IF outcome.kind = "raised"
     THEN /\ module' = ExitOnError(module)
          /\ UNCHANGED <<facade, pc, posts, call, encoded, arguments, signing, sent,
                         response, outcome, prev>>
     ELSE LET computers == IF outcome.value.t = "list" THEN outcome.value.v ELSE <<>>
              actual_computers == [i \in 1..Len(computers) |-> computers[i].v["hostname"].v]
              changed == check_state(module, actual_computers)
              computer_id == get_computer_id(module, computers)
              kwargs == [n \in {N_computer_ids} |-> PyL(<<PyI(computer_id)>>)]
          IN IF changed
             THEN /\ module' = [module EXCEPT !.step = "delete_computer",
                                              !.computers = computers,
                                              !.changed = TRUE,
                                              !.computer_id = computer_id]
                  /\ call' = [via |-> "method", method |-> A_RemoveComputers,
                              args |-> <<>>, keywords |-> kwargs, supplied |-> kwargs,
                              kwargs |-> kwargs, timestamp |-> T_2]
                  /\ CallBody(A_RemoveComputers, kwargs, T_2)
             ELSE /\ module' = [module EXCEPT !.step = "exit",
                                              !.computers = computers,
                                              !.response = "No computer deleted",
                                              !.exit = "exit_json"]
                  /\ UNCHANGED <<facade, pc, posts, call, encoded, arguments, signing, sent,
                                 response, outcome, prev>>
  /\ UNCHANGED registry

\* main() from the return of delete_computer on: fail_json in its except
\* clause, or exit_json
ExitAction ==
  /\ pc = "done"
  /\ module.step = "delete_computer"
  /\ module' = IF outcome.kind = "raised" THEN ExitOnError(module)
               ELSE [module EXCEPT !.step = "exit", !.exit = "exit_json"]
  /\ UNCHANGED <<facade, pc, posts, call, encoded, arguments, signing, sent, response,
                 outcome, prev, registry>>

NextRemove == GetComputersAction \/ RespondRemoveAction \/ MainAction \/ ExitAction

SpecRemove == InitRemove /\ [][NextRemove]_vars

(***************************************************************************)
(* Properties of the parameter encoder (under Spec).                       *)
(***************************************************************************)
\* the call went through _API.call or a generated method and names an
\* action that the schema it consulted first declares
CallsAction ==
  /\ call.via \in {"call", "method"}
  /\ HasAction(IF call.via = "method" THEN facade.class_schema ELSE facade.schema,
               call.method, facade.version)

\* the parameters of the action that was called
CalledParameters ==
  SchemaAction(IF call.via = "method" THEN facade.class_schema ELSE facade.schema,
               call.method, facade.version).parameters

\* the caller left out a required parameter of the action
OmitsRequired ==
  CallsAction /\ RequiredNames(CalledParameters) \ (DOMAIN call.supplied) /= {}

\* the names the caller supplied that the action does not declare
UndeclaredNames ==
  IF CallsAction THEN (DOMAIN call.supplied) \ DeclaredNames(CalledParameters) ELSE {}

\* the generated method was called with arguments that Python cannot bind
\* for another reason than a missing one
OtherBindingFailure ==
  /\ call.via = "method"
  /\ outcome.exc = "TypeError"
  /\ \/ UndeclaredNames /= {} /\ outcome.msg = "unexpected keyword argument"
     \/ /\ \E i \in 1..Len(CalledParameters) :
             /\ i <= Len(call.args)
             /\ PositionalParameters(CalledParameters)[i].name \in DOMAIN call.keywords
        /\ outcome.msg = "multiple values for argument"
     \/ /\ Len(call.args) > Len(CalledParameters)
        /\ outcome.msg = "too many positional arguments"

\* C1: a call of an action (through _API.call or through the generated
\* method) that omits a required parameter ends by raising a TypeError, the
\* missing-parameter error, and the transport has issued no POST; only when
\* the arguments handed to the generated method cannot be bound for another
\* reason as well (an undeclared name, two values for one parameter) does
\* Python report that instead, with a TypeError as well.
C1_MissingRequiredRaisesBeforePost ==
  OmitsRequired =>
    /\ pc = "done"
    /\ posts = 0
    /\ sent = NoRequest
    /\ outcome.kind = "raised"
    /\ outcome.exc = "TypeError"
    /\ \/ outcome.msg \in {"Missing parameter", "missing positional argument"}
       \/ OtherBindingFailure

\* a call through _API.call that supplies some parameters and omits a
\* required one has raised the missing-parameter error
C1_Witness ==
  /\ OmitsRequired
  /\ call.via = "call"
  /\ call.supplied /= EmptyDict
  /\ pc = "done"
  /\ posts = 0
  /\ outcome.msg = "Missing parameter"

\* a structure argument of the call carries a field its description does
\* not declare
UndeclaredFields ==
  /\ CallsAction
  /\ \E i \in 1..Len(CalledParameters) :
       LET p == CalledParameters[i] IN
       /\ p.type = "structure"
       /\ p.name \in DOMAIN call.supplied
       /\ call.supplied[p.name].t = "dict"
       /\ \E j \in 1..Len(call.supplied[p.name].v) :
            call.supplied[p.name].v[j][1].v \notin {p.fields[k][1] : k \in 1..Len(p.fields)}

\* a structure value without the fields its description does not declare
WithoutUndeclaredFields(p, value) ==
  IF p.type = "structure" /\ value.t = "dict"
  THEN PyD(SelectSeq(value.v,
                     LAMBDA pair : pair[1].v \in {p.fields[k][1] : k \in 1..Len(p.fields)}))
  ELSE value

\* the arguments of the call with every undeclared name taken out
DeclaredArguments ==
  [n \in (DOMAIN call.supplied) \cap DeclaredNames(CalledParameters) |->
     WithoutUndeclaredFields(ParamNamed(CalledParameters, n), call.supplied[n])]

\* C2: a call that supplies a name the schema does not declare, at top
\* level or inside a structure, raises and issues no POST, so the name is
\* never dropped silently; and whenever the declared parameters alone are
\* processed without error, what is raised is the TypeError for the extra
\* argument, or the TypeError of Python for arguments of the generated
\* method that it cannot bind.
C2_ExtraArgumentsRejected ==
  (UndeclaredNames /= {} \/ UndeclaredFields) =>
    /\ pc = "done"
    /\ posts = 0
    /\ sent = NoRequest
    /\ outcome.kind = "raised"
    /\ _encode_struct_fields(FieldsOf(CalledParameters), DeclaredArguments, <<>>).exc = "None"
         => /\ outcome.exc = "TypeError"
            /\ outcome.msg = "Extra arguments" \/ OtherBindingFailure

\* _API.call was handed a complete set of declared arguments together with
\* an undeclared name, and raised for it after the loop over the fields
C2_Witness ==
  /\ UndeclaredNames /= {}
  /\ call.via = "call"
  /\ RequiredNames(CalledParameters) \subseteq DOMAIN call.supplied
  /\ pc = "done"
  /\ posts = 0
  /\ outcome.exc = "TypeError"
  /\ outcome.msg = "Extra arguments"

\* the call reached the encoder, which returned the output mapping
Encoded == CallsAction /\ encoded.exc = "None"

\* the optional parameters of the action that call() was handed a value for
OptionalSupplied ==
  {i \in 1..Len(CalledParameters) :
     CalledParameters[i].optional /\ CalledParameters[i].name \in DOMAIN call.kwargs}

\* the keys of the output mapping that come from the parameter called name
KeysOf(name) ==
  {k \in DOMAIN encoded.out : k = name \/ StartsWith(k, name \o <<46>>)}

ScalarTypes ==
  {"integer", "boolean", "unicode", "unicode line", "unicode title", "raw string", "enum",
   "file", "data"}

\* C3 as stated: an optional parameter whose value equals its default
\* yields no key, and one whose value differs from it yields exactly one key.
C3_OneKeyWhenNotDefault ==
  Encoded =>
    \A i \in OptionalSupplied :
      LET p == CalledParameters[i] IN
      IF PyEq(call.kwargs[p.name], p.default)
      THEN KeysOf(p.name) = {}
      ELSE Cardinality(KeysOf(p.name)) = 1

\* C3: an optional parameter whose value equals its default yields no key;
\* a value that differs yields exactly one key, the parameter's name, when
\* the parameter is of a scalar type, one key per item when it is a list,
\* and one key per entry when it is a mapping given as a dict.
C3_DefaultSuppression ==
  Encoded =>
    \A i \in OptionalSupplied :
      LET p == CalledParameters[i]
          v == call.kwargs[p.name]
      IN IF PyEq(v, p.default) THEN KeysOf(p.name) = {}
         ELSE CASE p.type \in ScalarTypes -> KeysOf(p.name) = {p.name}
                [] p.type = "list" /\ v.t = "list" ->
                     Cardinality(KeysOf(p.name)) = Len(v.v)
                [] p.type = "list" /\ v.t = "str" ->
                     Cardinality(KeysOf(p.name)) = Len(Split(v.v, 44))
                [] p.type = "mapping" /\ v.t = "dict" ->
                     Cardinality(KeysOf(p.name)) = Len(v.v)
                [] OTHER -> TRUE

\* one call encoded an optional parameter left at its default, which gave
\* no key, and an optional list of two items, which gave two
C3_Witness ==
  /\ Encoded
  /\ pc = "posted"
  /\ \E i \in OptionalSupplied :
       /\ PyEq(call.kwargs[CalledParameters[i].name], CalledParameters[i].default)
       /\ KeysOf(CalledParameters[i].name) = {}
  /\ \E i \in OptionalSupplied :
       /\ CalledParameters[i].type = "list"
       /\ call.kwargs[CalledParameters[i].name].t = "list"
       /\ Len(call.kwargs[CalledParameters[i].name].v) = 2
       /\ Cardinality(KeysOf(CalledParameters[i].name)) = 2

(***************************************************************************)
(* Properties of the signed request (under Spec).                          *)
(***************************************************************************)
\* the body that was posted, up to the trailing "&signature="
SentCanonical ==
  SubSeq(sent.post_body.text, 1, Len(sent.post_body.text) - Len(S_amp_signature_eq))

\* the key=value pairs of that text as <<key, value>>, still percent-encoded
SentPairs ==
  LET pieces == Split(SentCanonical, 38)
  IN [i \in 1..Len(pieces) |->
        <<Partition(pieces[i], 61)[1], Partition(pieces[i], 61)[3]>>]

\* the values the body gives for a key
SentValues(key) == {SentPairs[i][2] : i \in {j \in 1..Len(SentPairs) : SentPairs[j][1] = key}}

\* the lines of the string that was signed
SignedLines == Split(signing.to_sign, 10)

\* C4: every request that was posted carries each of the six fixed fields
\* exactly once, access_key_id with the client's access key, action with
\* the name of the invoked action, signature_version "2", signature_method
\* "HmacSHA256", timestamp with the time of the call and version with the
\* version the client hands to run_query, whatever the caller supplied
\* under these names; and that body is the text that was signed.
C4_FixedFieldsNeverOverridden ==
  posts > 0 =>
    /\ \A k \in {S_access_key_id, S_action, S_signature_version, S_signature_method,
                 S_timestamp, S_version} :
         Cardinality({j \in 1..Len(SentPairs) : SentPairs[j][1] = k}) = 1
    /\ SentValues(S_access_key_id) = {quote(facade.access_key, {126})}
    /\ SentValues(S_action) = {quote(call.method, {126})}
    /\ SentValues(S_signature_version) = {S_2}
    /\ SentValues(S_signature_method) = {S_HmacSHA256}
    /\ SentValues(S_timestamp) = {quote(call.timestamp, {126})}
    /\ SentValues(S_version) = {quote(facade.rq_version, {126})}
    /\ SignedLines[Len(SignedLines)] = SentCanonical

\* call_arbitrary was handed an "action" entry that differs from the action
\* it invoked, and the request was posted
C4_Witness ==
  /\ posts > 0
  /\ call.via = "call_arbitrary"
  /\ S_action \in DOMAIN call.supplied
  /\ call.supplied[S_action] /= call.method
  /\ SentValues(S_action) = {call.method}

\* the key of the parameters whose percent-encoding is the key of the
\* i-th pair of the body
SentKey(i) ==
  CHOOSE k \in DOMAIN signing.params : quote(k, {126}) = SentPairs[i][1]

\* C5: the body that was posted is one key=value pair per parameter,
\* percent-encoded, in ascending order of the keys and joined with "&",
\* followed by the single pair "&signature=<sig>"; <sig> is the encoded HMAC
\* of the string that was signed, whose last line is the body without that
\* trailing pair.
C5_BodySortedThenSignature ==
  posts > 0 =>
    /\ EndsWith(sent.post_body.text, S_amp_signature_eq)
    /\ Len(SentPairs) = Cardinality(DOMAIN signing.params)
    /\ \A i \in 1..Len(SentPairs) :
         /\ \E k \in DOMAIN signing.params : quote(k, {126}) = SentPairs[i][1]
         /\ SentPairs[i][2] = quote(signing.params[SentKey(i)], {126})
    /\ \A i \in 1..(Len(SentPairs) - 1) : StrLess(SentKey(i), SentKey(i + 1))
    /\ SentCanonical =
         Join(<<38>>, [i \in 1..Len(SentPairs) |->
                         SentPairs[i][1] \o <<61>> \o SentPairs[i][2]])
    /\ sent.post_body.signature.quoted_b64 = Hmac(facade.secret_key, signing.to_sign)
    /\ SignedLines[Len(SignedLines)] = SentCanonical
    /\ ~EndsWith(signing.to_sign, S_amp_signature_eq)

\* a request was posted whose parameters hold, beside the six fixed fields,
\* a key that sorts before them and one that sorts between two of them
C5_Witness ==
  /\ posts > 0
  /\ \E k \in DOMAIN signing.params : StrLess(k, S_access_key_id)
  /\ \E k \in DOMAIN signing.params : StrLess(S_action, k) /\ StrLess(k, S_signature_method)
  /\ Len(SentPairs) = 8

\* the target URI after "scheme://": the authority up to the first "/" and
\* the path from there on
UriAuthority ==
  LET rest == SubSeq(facade.uri, FindAny(facade.uri, {58}, 1) + 3, Len(facade.uri))
  IN SubSeq(rest, 1, FindAny(rest, {47}, 1) - 1)

UriPath ==
  LET rest == SubSeq(facade.uri, FindAny(facade.uri, {58}, 1) + 3, Len(facade.uri))
  IN SubSeq(rest, FindAny(rest, {47}, 1), Len(rest))

\* the digits of the port the URI names, <<>> when it names none
UriPort ==
  IF \E i \in 1..Len(UriAuthority) : UriAuthority[i] = 58
  THEN SubSeq(UriAuthority, FindAny(UriAuthority, {58}, 1) + 1, Len(UriAuthority))
  ELSE <<>>

UriHost == SubSeq(UriAuthority, 1, FindAny(UriAuthority, {58}, 1) - 1)

\* C6: the string that was signed has four lines: POST; the host of the
\* target URI, followed by ":" and the port exactly when the URI names a
\* port; the path of the URI, or "/" when the URI has none; and the
\* canonical parameters.  The Host header of the request is the second line.
C6_StringToSign ==
  posts > 0 =>
    /\ Len(SignedLines) = 4
    /\ SignedLines[1] = S_POST
    /\ SignedLines[2] = IF UriPort /= <<>> THEN UriHost \o <<58>> \o UriPort ELSE UriHost
    /\ (\E i \in 1..Len(SignedLines[2]) : SignedLines[2][i] = 58) <=> UriPort /= <<>>
    /\ SignedLines[3] = IF UriPath = <<>> THEN <<47>> ELSE UriPath
    /\ SignedLines[4] = SentCanonical
    /\ sent.headers["Host"] = SignedLines[2]

\* a request was posted to a URI that names a port and has no path
C6_Witness ==
  /\ posts > 0
  /\ UriPort /= <<>>
  /\ UriPath = <<>>
  /\ SignedLines[2] = UriHost \o <<58>> \o UriPort
  /\ SignedLines[3] = <<47>>

(***************************************************************************)
(* Properties of signing across two calls (under SpecPair).                *)
(***************************************************************************)
\* both calls have posted their request
BothPosted == posts = 2 /\ prev /= NoPrev

\* the two calls were made with the same secret key, on the same URI
SameClient == prev.secret_key = facade.secret_key /\ prev.uri = facade.uri

\* the keys on whose value the two signed parameter sets disagree
ChangedKeys ==
  {k \in (DOMAIN signing.params) \cap (DOMAIN prev.signing.params) :
     signing.params[k] /= prev.signing.params[k]}

\* C7: two calls with the same action, arguments, timestamp, secret key and
\* URI send the same signature; and two calls with the same secret key and
\* URI whose signed parameters have the same names and differ in the value
\* of exactly one of them sign different strings and send different
\* signatures.
C7_SigningIsAPureFunction ==
  BothPosted /\ SameClient =>
    /\ (/\ prev.call.method = call.method
        /\ prev.call.supplied = call.supplied
        /\ prev.call.timestamp = call.timestamp)
         => /\ signing.to_sign = prev.signing.to_sign
            /\ sent.post_body.signature = prev.sent.post_body.signature
    /\ (/\ DOMAIN signing.params = DOMAIN prev.signing.params
        /\ Cardinality(ChangedKeys) = 1)
         => /\ signing.to_sign /= prev.signing.to_sign
            /\ sent.post_body.signature /= prev.sent.post_body.signature

\* the two calls differ only in the value of the argument x, "&" in one and
\* "%26" in the other
C7_Witness ==
  /\ BothPosted
  /\ SameClient
  /\ prev.call.timestamp = call.timestamp
  /\ prev.call.supplied = [k \in {K_x} |-> V_amp]
  /\ call.supplied = [k \in {K_x} |-> V_pct]
  /\ ChangedKeys = {K_x}
  /\ sent.post_body.signature /= prev.sent.post_body.signature

\* sub occurs in text
Contains(text, sub) ==
  \E i \in 0..(Len(text) - Len(sub)) : SubSeq(text, i + 1, i + Len(sub)) = sub

\* C8: a request that was posted holds the secret key nowhere in its URL,
\* its headers or the text of its body; and two calls that differ in nothing
\* but the secret key send the same URL, the same headers and the same body
\* up to the signature, which is the HMAC under the secret key of the same
\* string.
C8_SecretNeverTransmitted ==
  /\ posts > 0 =>
       /\ ~Contains(sent.url, facade.secret_key)
       /\ ~Contains(sent.post_body.text, facade.secret_key)
       /\ \A h \in DOMAIN sent.headers : ~Contains(sent.headers[h], facade.secret_key)
       /\ sent.post_body.signature.quoted_b64 = Hmac(facade.secret_key, signing.to_sign)
  /\ (/\ BothPosted
      /\ prev.uri = facade.uri
      /\ prev.call.method = call.method
      /\ prev.call.supplied = call.supplied
      /\ prev.call.timestamp = call.timestamp)
       => /\ sent.url = prev.sent.url
          /\ sent.headers = prev.sent.headers
          /\ sent.post_body.text = prev.sent.post_body.text
          /\ signing.to_sign = prev.signing.to_sign

\* the two calls differ in the secret key alone, and in the signature sent
C8_Witness ==
  /\ BothPosted
  /\ prev.uri = facade.uri
  /\ prev.call = call
  /\ prev.secret_key /= facade.secret_key
  /\ sent.post_body.text = prev.sent.post_body.text
  /\ sent.post_body.signature /= prev.sent.post_body.signature

(***************************************************************************)
(* Properties of the mapping of error responses (under SpecErr).           *)
(***************************************************************************)
\* the call has ended on a response outside 2xx whose body is an error
\* payload: a JSON object with a string under "error" and an entry under
\* "message"
ErrorPayloadReceived ==
  /\ pc = "done"
  /\ posts > 0
  /\ response.status /= 0
  /\ response.status \notin 200..299
  /\ response.body.kind = "object"
  /\ {"error", "message"} \subseteq DOMAIN response.body.data.v
  /\ response.body.data.v["error"].t = "str"

\* the class the registry holds for the code of the payload, NoClass if none
RegisteredClass ==
  lookup_error(errors, _get_error_code_name(response.body.data.v["error"].v))

\* the exception that was raised carries the status, the body and the
\* parsed code and message of the response
CarriesDetails ==
  /\ outcome.kind = "raised"
  /\ outcome.exc = "HTTPError"
  /\ outcome.e.code = response.status
  /\ outcome.e.message = response.body
  /\ outcome.e.error_code = response.body.data.v["error"]
  /\ outcome.e.error_message = response.body.data.v["message"]

\* C9: a call that ends on an error payload whose code the registry knows
\* raises an instance of the class registered for the normalized code, with
\* the status, the raw body and the parsed code and message of the response.
C9_KnownCodeRaisesRegisteredClass ==
  (ErrorPayloadReceived /\ RegisteredClass /= NoClass) =>
    /\ CarriesDetails
    /\ outcome.e.cls = RegisteredClass

UnparseableReceived ==
  /\ pc = "done"
  /\ posts > 0
  /\ response.status /= 0
  /\ response.status \notin 200..299
  /\ \/ response.body.kind \in {"text", "malformed"}
     \/ /\ response.body.kind = "object"
        /\ ~({"error", "message"} \subseteq DOMAIN response.body.data.v)

\* C11: a call that ends on a response outside 2xx whose body is not an
\* error payload raises an instance of HTTPError itself with the status and
\* the raw body and with no parsed error code; nothing else is raised.
C11_UnparseableBodyRaisesHTTPError ==
  UnparseableReceived =>
    /\ outcome.kind = "raised"
    /\ outcome.exc = "HTTPError"
    /\ outcome.e.cls = HTTPError
    /\ outcome.e.code = response.status
    /\ outcome.e.message = response.body
    /\ outcome.e.error_code = PyNone

\* the call has ended on a multi-error response: an error payload with the
\* code "MultiError" and a list under "errors"
MultiErrorReceived ==
  /\ ErrorPayloadReceived
  /\ response.body.data.v["error"] = PyS(E_MultiError)
  /\ "errors" \in DOMAIN response.body.data.v

\* the sub-errors of the payload
SubErrorList == response.body.data.v["errors"]

\* the class that a sub-error is to be raised as: the class registered for
\* its normalized code, APIError when the code is unknown or absent
SubErrorClass(sub_error) ==
  IF "error" \in DOMAIN sub_error.v /\ sub_error.v["error"].t = "str"
  THEN LET error_class == lookup_error(errors, _get_error_code_name(sub_error.v["error"].v))
       IN IF error_class /= NoClass THEN error_class ELSE APIError
  ELSE APIError

\* the entry of a payload under key, None when there is none
EntryOrNone(payload, key) == IF key \in DOMAIN payload.v THEN payload.v[key] ELSE PyNone

\* C12: a call that ends on a multi-error response raises a MultiError
\* whose errors list holds one exception per sub-error of the payload, in
\* the order of the payload: each an instance of the class registered for
\* the sub-error's normalized code, or of APIError when the code is unknown
\* or absent, with the status of the response and the sub-error's own code
\* and message.
C12_MultiErrorHoldsOneExceptionPerSubError ==
  MultiErrorReceived =>
    /\ outcome.kind = "raised"
    /\ outcome.exc = "HTTPError"
    /\ outcome.e.cls = MultiError
    /\ Len(outcome.e.errors) = Len(SubErrorList)
    /\ \A i \in 1..Len(SubErrorList) :
         /\ outcome.e.errors[i].cls = SubErrorClass(SubErrorList[i])
         /\ outcome.e.errors[i].code = response.status
         /\ outcome.e.errors[i].error_code = EntryOrNone(SubErrorList[i], "error")
         /\ outcome.e.errors[i].error_message = EntryOrNone(SubErrorList[i], "message")

\* C13: a call that ends on a multi-error response with a sub-error whose
\* own code is "MultiError" raises a MultiError that holds, in the place of
\* that sub-error, a MultiError again.
C13_NestedMultiErrorIsDecomposed ==
  MultiErrorReceived =>
    \A i \in 1..Len(SubErrorList) :
      EntryOrNone(SubErrorList[i], "error") = PyS(E_MultiError) =>
        /\ outcome.kind = "raised"
        /\ outcome.exc = "HTTPError"
        /\ outcome.e.cls = MultiError
        /\ Len(outcome.e.errors) = Len(SubErrorList)
        /\ outcome.e.errors[i].cls = MultiError

\* the class fixed in the source for an authentication or signature code
FixedClassOf(code) ==
  CASE code = E_Unauthorised -> UnauthorisedError
    [] code = E_SignatureDoesNotMatch -> SignatureDoesNotMatchError
    [] code = E_AuthFailure -> AuthFailureError
    [] code = E_InvalidCredentials -> InvalidCredentialsError

\* C14: a call that ends on an error payload whose code is Unauthorised,
\* SignatureDoesNotMatch, AuthFailure or InvalidCredentials raises an
\* instance of the class fixed in the source for that code, with the details
\* of the response.
C14_AuthenticationCodesRaiseFixedClasses ==
  (/\ ErrorPayloadReceived
   /\ response.body.data.v["error"].v \in
        {E_Unauthorised, E_SignatureDoesNotMatch, E_AuthFailure, E_InvalidCredentials}) =>
    /\ CarriesDetails
    /\ outcome.e.cls = FixedClassOf(response.body.data.v["error"].v)

\* C15: during the population of the registry (the loops over the codes of
\* a schema in which codes are declared more than once, then the module's
\* add_error calls) a name that is registered stays registered with the
\* same class: lookup_error gives after every step the class it gave
\* before it.
C15_RegisteredClassNeverChanges ==
  [][\A error_name \in DOMAIN registry.container :
       lookup_error(registry'.container, error_name) = registry.container[error_name]]_vars

\* the population is over for a schema that declares a code twice, and the
\* name of that code is registered with the class made at the first
\* declaration
C15_Witness ==
  /\ registry.i > Len(registry.codes)
  /\ registry.fixed = Len(FixedErrors)
  /\ \E j \in 1..Len(registry.codes), k \in 1..Len(registry.codes) :
       /\ j < k
       /\ registry.codes[j] = registry.codes[k]
       /\ \A h \in 1..(j - 1) : registry.codes[h] /= registry.codes[j]
       /\ lookup_error(registry.container, _get_error_code_name(registry.codes[j]))
            = _build_exception(_get_error_code_name(registry.codes[j]), j)

\* C16: a call that passed the client's validation has made exactly one
\* POST, and when the response to it is outside 2xx the call raises an
\* error with the status and the raw body of the response; it never
\* returns a value.
C16_OnePostAndNon2xxRaises ==
  (pc = "done" /\ posts > 0) =>
    /\ posts = 1
    /\ (response.status /= 0 /\ response.status \notin 200..299) =>
         /\ outcome.kind = "raised"
         /\ outcome.exc = "HTTPError"
         /\ outcome.e.code = response.status
         /\ outcome.e.message = response.body

\* C17: a call whose POST got no HTTP response raises an instance of
\* HTTPError itself with no parsed error code, and every failure of a call
\* that has made its POST is an HTTPError or one of its subclasses.
C17_TransportFailureRaisesHTTPError ==
  (pc = "done" /\ posts > 0) =>
    /\ response.status = 0 =>
         /\ outcome.kind = "raised"
         /\ outcome.exc = "HTTPError"
         /\ outcome.e.cls = HTTPError
         /\ outcome.e.error_code = PyNone
    /\ outcome.kind = "raised" => outcome.exc = "HTTPError"

\* a call of an action of the schema has ended on a 2xx response
SuccessReceived ==
  /\ pc = "done"
  /\ posts > 0
  /\ call.via \in {"call", "method"}
  /\ response.status \in 200..299

\* the body is JSON text
JsonBody == response.body.kind \in {"object", "array", "string"}

\* the action that was called is in RAW_ACTIONS_LIST, under the name it has
\* on the command line
InRawActionsList ==
  \E i \in 1..Len(RAW_ACTIONS_LIST) : RAW_ACTIONS_LIST[i] = cmdline_name(call.method)

RequiredOf(parameters) ==
  LET IsRequired(p) == ~p.optional IN SelectSeq(parameters, IsRequired)

\* the generated method was called with one positional argument for each
\* required parameter and with nothing else
RequiredOnlyCall ==
  /\ pc /= "idle"
  /\ call.via = "method"
  /\ CallsAction
  /\ call.keywords = EmptyDict
  /\ Len(call.args) = Len(RequiredOf(CalledParameters))

\* the key k of a request comes from the parameter called name
FromParameter(k, name) == k = name \/ StartsWith(k, name \o <<46>>)

\* C19: the method generated for an action binds its positional arguments
\* to the required parameters in the order of the schema and gives every
\* optional parameter its schema default: called with the required
\* arguments alone it hands call() a value for every parameter of the
\* action, and the encoded arguments and the request that is posted hold,
\* beside the fixed fields, keys of the required parameters only.
C19_RequiredPositionalOptionalDefaulted ==
  RequiredOnlyCall =>
    LET required == RequiredOf(CalledParameters)
        required_keys(keys) ==
          \A k \in keys : \E i \in 1..Len(required) : FromParameter(k, required[i].name)
    IN /\ ~(outcome.exc = "TypeError" /\ outcome.msg \in
              {"missing positional argument", "too many positional arguments",
               "unexpected keyword argument", "multiple values for argument"})
       /\ DOMAIN call.kwargs = DeclaredNames(CalledParameters)
       /\ \A i \in 1..Len(required) : call.kwargs[required[i].name] = call.args[i]
       /\ \A i \in 1..Len(CalledParameters) :
            CalledParameters[i].optional =>
              call.kwargs[CalledParameters[i].name] = CalledParameters[i].default
       /\ encoded.exc = "None" => required_keys(DOMAIN encoded.out)
       /\ posts > 0 =>
            required_keys((DOMAIN signing.params)
                          \ {S_access_key_id, S_action, S_signature_version,
                             S_signature_method, S_timestamp, S_version})

\* CreateSavedSearch, whose optional name comes first in the schema, called
\* as create_saved_search("g", <second value>): the request holds title and
\* search and no name
C19_Witness ==
  /\ RequiredOnlyCall
  /\ call.method = A_CreateSavedSearch
  /\ posts = 1
  /\ DOMAIN encoded.out = {N_title, N_search}
  /\ call.kwargs[N_title] = call.args[1]
  /\ call.kwargs[N_search] = call.args[2]
  /\ call.args[1] /= call.args[2]
  /\ call.kwargs[N_name] = PyNone

\* CreateAccessGroup was called on the facade, through call() or through
\* the generated method, with name="group1" and nothing else
CalledWithNameGroup1 ==
  /\ pc /= "idle"
  /\ call.via \in {"call", "method"}
  /\ call.method = A_CreateAccessGroup
  /\ call.args = <<>>
  /\ call.keywords = [n \in {N_name} |-> PyS(V_group1)]

\* the request was posted, and its body holds name=group1 and no parent key
BodyHasNameAndNoParent ==
  /\ posts = 1
  /\ SentValues(N_name) = {V_group1}
  /\ SentValues(N_parent) = {}

\* C20 as stated: CreateAccessGroup called with name="group1" and no
\* parent, on any facade, posts a body that holds name=group1 and no parent
\* key.
C20_NameGroup1OnAnyFacade ==
  CalledWithNameGroup1 => BodyHasNameAndNoParent

\* C20: CreateAccessGroup called with name="group1" and no parent on a
\* facade of API version 2013-11-04 (APIv2) posts a body that holds
\* name=group1 and no parent key; on a facade of version 2011-08-01 (API),
\* where the required parameter is title, the call raises TypeError and
\* posts nothing.
C20_NameGroup1OnFutureVersion ==
  CalledWithNameGroup1 =>
    IF facade.version = FUTURE_VERSION
    THEN BodyHasNameAndNoParent
    ELSE /\ posts = 0
         /\ outcome.kind = "raised"
         /\ outcome.exc = "TypeError"

\* the call on APIv2 has been answered: its body held name=group1, the six
\* fixed fields and nothing else
C20_Witness ==
  /\ CalledWithNameGroup1
  /\ facade.cls = "APIv2"
  /\ pc = "done"
  /\ BodyHasNameAndNoParent
  /\ Len(SentPairs) = 7

(***************************************************************************)
(* Properties of the list and mapping encoders (under SpecEnc).            *)
(***************************************************************************)
\* the keys of the encoded parameters that belong to the parameter name:
\* those that start with "name."
KeysUnder(name) == {k \in DOMAIN encoded.out : StartsWith(k, name \o <<46>>)}

\* the call went through, and handed a value of Python type t to the
\* parameter name of the action
Supplied(name, t) ==
  /\ call.via = "call"
  /\ encoded.exc = "None"
  /\ name \in DOMAIN call.supplied
  /\ call.supplied[name].t = t

\* the key of the i-th item of the list parameter name
ItemKey(name, i) == name \o <<46>> \o IntToStr(i)

\* the list parameters of the actions that SpecEnc calls
ListParameters == {AssociateAlert.parameters[2], AcceptPendingComputers.parameters[1]}

\* C21: a native list of n scalar items handed to a list parameter N is
\* encoded as exactly the keys N.1 .. N.n (numbered from 1, no N.0), and
\* N.i holds the encoding of the i-th item under the item description.
C21_NativeListIndexedFromOne ==
  \A p \in ListParameters :
    Supplied(p.name, "list") =>
      LET sequence == call.supplied[p.name].v
      IN /\ KeysUnder(p.name) = {ItemKey(p.name, i) : i \in 1..Len(sequence)}
         /\ \A i \in 1..Len(sequence) :
              LET item == _encode_argument(p.item, ItemKey(p.name, i), sequence[i])
              IN encoded.out[ItemKey(p.name, i)] = item.out[ItemKey(p.name, i)]

\* tags=["x", "a,b"] has been encoded and posted as tags.1=x and tags.2=a,b
C21_Witness ==
  /\ Supplied(N_tags, "list")
  /\ call.supplied[N_tags] = PyL(<<PyS(<<120>>), PyS(V_a_comma_b)>>)
  /\ pc = "posted"
  /\ KeysUnder(N_tags) = {ItemKey(N_tags, 1), ItemKey(N_tags, 2)}
  /\ encoded.out[ItemKey(N_tags, 1)] = <<120>>
  /\ encoded.out[ItemKey(N_tags, 2)] = V_a_comma_b
  /\ signing.params[ItemKey(N_tags, 2)] = V_a_comma_b

\* C22: a list handed to a list parameter N as one comma-separated string,
\* in which "\," stands for a literal comma, is encoded like the native list
\* of its parts: "a\,b,c" as N.1 = "a,b" and N.2 = "c".
C22_StringListEscapedComma ==
  \A p \in ListParameters :
    Supplied(p.name, "str") =>
      LET parts == _parse_csv_list_safely(call.supplied[p.name].v)
      IN /\ KeysUnder(p.name) = {ItemKey(p.name, i) : i \in 1..Len(parts)}
         /\ \A i \in 1..Len(parts) : encoded.out[ItemKey(p.name, i)] = parts[i]

\* tags="a\,b,c" has been encoded as the three items "a\", "b" and "c"
C22_EscapedCommaSplit ==
  /\ Supplied(N_tags, "str")
  /\ call.supplied[N_tags] = PyS(V_escaped)
  /\ KeysUnder(N_tags) = {ItemKey(N_tags, 1), ItemKey(N_tags, 2), ItemKey(N_tags, 3)}
  /\ encoded.out[ItemKey(N_tags, 1)] = <<97, 92>>
  /\ encoded.out[ItemKey(N_tags, 2)] = <<98>>
  /\ encoded.out[ItemKey(N_tags, 3)] = <<99>>

\* the mapping parameter of the actions that SpecEnc calls
MappingParameter == AcceptPendingComputers.parameters[2]

\* the key of a mapping entry, encoded under the key description
EntryKey(p, key) ==
  p.name \o <<46>> \o _encode_argument(p.key, <<60, 107, 101, 121, 62>>, key).out[<<60, 107, 101, 121, 62>>]

\* C23: a native mapping handed to a mapping parameter N is encoded as
\* exactly one key per entry, N.<key> with the key written as the key
\* description says (an integer key in decimal), and that key holds the
\* value of the entry encoded under the value description.
C23_NativeMappingKeyedByEntry ==
  Supplied(MappingParameter.name, "dict") =>
    LET p == MappingParameter
        items == call.supplied[p.name].v
    IN /\ KeysUnder(p.name) = {EntryKey(p, items[i][1]) : i \in 1..Len(items)}
       /\ Cardinality(KeysUnder(p.name)) = Len(items)
       /\ \A i \in 1..Len(items) :
            LET subname == EntryKey(p, items[i][1])
            IN encoded.out[subname] = _encode_argument(p.value, subname, items[i][2]).out[subname]

\* existing_ids={2: 1, 1: 2} has been encoded and posted as
\* existing_ids.2=1 and existing_ids.1=2
C23_Witness ==
  /\ Supplied(N_existing_ids, "dict")
  /\ Len(call.supplied[N_existing_ids].v) = 2
  /\ pc = "posted"
  /\ KeysUnder(N_existing_ids) = {ItemKey(N_existing_ids, 1), ItemKey(N_existing_ids, 2)}
  /\ encoded.out[ItemKey(N_existing_ids, 2)] = <<49>>
  /\ encoded.out[ItemKey(N_existing_ids, 1)] = <<50>>
  /\ signing.params[ItemKey(N_existing_ids, 2)] = <<49>>

\* the call handed the mapping parameter a string of key=value pairs, each
\* with its "="
StringMappingSupplied ==
  /\ call.via = "call"
  /\ MappingParameter.name \in DOMAIN call.supplied
  /\ call.supplied[MappingParameter.name].t = "str"
  /\ _parse_csv_mapping_safely(call.supplied[MappingParameter.name].v).exc = "None"

\* the native mapping that a string of key=value pairs stands for
NativeMappingOf(value) ==
  LET pairs == _parse_csv_mapping_safely(value).pairs
  IN PyD([i \in 1..Len(pairs) |-> <<PyS(Strip(pairs[i][1])), PyS(Strip(pairs[i][2]))>>])

\* C24: a mapping handed to a mapping parameter N as a string of
\* comma-separated key=value pairs is encoded like the native mapping with
\* the same entries, whatever the length of the keys and of the values.
C24_StringMappingLikeNative ==
  StringMappingSupplied =>
    LET p == MappingParameter
        native == _encode_mapping(p, p.name, NativeMappingOf(call.supplied[p.name].v))
    IN /\ encoded.exc = "None"
       /\ KeysUnder(p.name) = DOMAIN native.out
       /\ \A k \in DOMAIN native.out : encoded.out[k] = native.out[k]

\* existing_ids="1=2" has ended the call with a ValueError, and
\* existing_ids="12=3" has been encoded as existing_ids.1=2
C24_KeyUnpackedIntoCharacters ==
  /\ StringMappingSupplied
  /\ \/ /\ call.supplied[N_existing_ids] = PyS(V_map_1)
        /\ outcome.exc = "ValueError"
        /\ posts = 0
     \/ /\ call.supplied[N_existing_ids] = PyS(V_map_2)
        /\ KeysUnder(N_existing_ids) = {ItemKey(N_existing_ids, 1)}
        /\ encoded.out[ItemKey(N_existing_ids, 1)] = <<50>>

(***************************************************************************)
(* Properties of _parse_csv_list_safely (under SpecCsv).                   *)
(***************************************************************************)
\* the string handed to _parse_csv_list_safely
CsvValue == call.args[1].v

\* the items that the call yielded, as strings
CsvItems == [i \in 1..Len(outcome.value.v) |-> outcome.value.v[i].v]

\* the call of _parse_csv_list_safely has ended
CsvParsed == call.via = "_parse_csv_list_safely" /\ pc = "done"

\* a part written with each of its commas as "\,"
EscapeCommas(part) == Join(<<92, 44>>, Split(part, 44))

\* the parts written with their commas escaped, and joined with commas
JoinEscaped(parts) == Join(<<44>>, [i \in 1..Len(parts) |-> EscapeCommas(parts[i])])

RECURSIVE Unescape(_)
\* a written part with each "\," read back as a comma
Unescape(s) ==
  IF s = <<>> THEN <<>>
  ELSE IF Len(s) >= 2 /\ s[1] = 92 /\ s[2] = 44
  THEN <<44>> \o Unescape(SubSeq(s, 3, Len(s)))
  ELSE <<s[1]>> \o Unescape(Tail(s))

RECURSIVE CutAt(_, _, _, _)
\* the pieces of value from position i on when it is cut at the positions
\* of the set cuts
CutAt(value, cuts, i, piece) ==
  IF i > Len(value) THEN <<piece>>
  ELSE IF i \in cuts THEN <<piece>> \o CutAt(value, cuts, i + 1, <<>>)
  ELSE CutAt(value, cuts, i + 1, Append(piece, value[i]))

\* every list of non-empty parts that is written as value
PartLists(value) ==
  LET commas == {i \in 1..Len(value) : value[i] = 44}
      read(cuts) == LET pieces == CutAt(value, cuts, 1, <<>>)
                    IN [i \in 1..Len(pieces) |-> Unescape(pieces[i])]
  IN {parts \in {read(cuts) : cuts \in SUBSET commas} :
        /\ JoinEscaped(parts) = value
        /\ \A i \in 1..Len(parts) : parts[i] /= <<>>}

\* C25: for every list of non-empty parts over an alphabet with commas and
\* backslashes, writing each part with its commas escaped as "\,", joining
\* the parts with "," and parsing the result with _parse_csv_list_safely
\* gives the parts back.
C25_EscapedJoinRoundTrip ==
  CsvParsed => \A parts \in PartLists(CsvValue) : CsvItems = parts

\* the one part "\aa" (backslash, a, a), written as it is, has been parsed
\* into the one item "\a\a\"
C25_BackslashPartChanged ==
  /\ CsvParsed
  /\ <<92, 97, 97>> \in {parts[1] : parts \in PartLists(CsvValue)}
  /\ CsvItems = << <<92, 97, 92, 97, 92>> >>

\* the items without the last character of the last one, which is dropped
\* when nothing is left of it
WithoutLastCharacter(items) ==
  LET last == items[Len(items)]
      rest == SubSeq(items, 1, Len(items) - 1)
  IN IF Len(last) = 1 THEN rest ELSE Append(rest, SubSeq(last, 1, Len(last) - 1))

\* C26: for every input that ends in a backslash, the last item yielded
\* ends with that backslash, and but for that one character the output is
\* the output for the input without its trailing backslash.
C26_TrailingBackslashKept ==
  (CsvParsed /\ CsvValue /= <<>> /\ CsvValue[Len(CsvValue)] = 92) =>
    /\ CsvItems /= <<>>
    /\ EndsWith(CsvItems[Len(CsvItems)], <<92>>)
    /\ WithoutLastCharacter(CsvItems) =
         _parse_csv_list_safely(SubSeq(CsvValue, 1, Len(CsvValue) - 1))

\* the input "a\\" (a and two backslashes) has yielded the one item "a\",
\* which the input "a\" yields as well
C26_SecondBackslashLost ==
  /\ CsvParsed
  /\ CsvValue = <<97, 92, 92>>
  /\ CsvItems = << <<97, 92>> >>
  /\ _parse_csv_list_safely(<<97, 92>>) = << <<97, 92>> >>

RECURSIVE EscapeNextOnly(_, _, _)
\* the items of value from position i on when a backslash escapes the
\* character right after it and nothing else: "\," is a literal comma, any
\* other comma ends the item, a backslash before another character stands
\* for itself; the last item is yielded when it is not empty
EscapeNextOnly(value, i, item) ==
  IF i > Len(value) THEN (IF item /= <<>> THEN <<item>> ELSE <<>>)
  ELSE IF value[i] = 92 /\ i < Len(value) /\ value[i + 1] = 44
  THEN EscapeNextOnly(value, i + 2, Append(item, 44))
  ELSE IF value[i] = 44 THEN <<item>> \o EscapeNextOnly(value, i + 1, <<>>)
  ELSE EscapeNextOnly(value, i + 1, Append(item, value[i]))

\* no backslash of the string is followed by another backslash
NoBackslashPair(value) ==
  \A i \in 1..(Len(value) - 1) : ~(value[i] = 92 /\ value[i + 1] = 92)

\* C29: a backslash escapes only the character right after it: a comma is
\* literal if and only if a backslash comes right before it, every other
\* comma ends an item, and a backslash before a character other than a
\* comma yields that backslash and that character and leaves the parsing
\* of the characters after them as it is.
C29_BackslashEscapesNextOnly ==
  (CsvParsed /\ NoBackslashPair(CsvValue)) =>
    CsvItems = EscapeNextOnly(CsvValue, 1, <<>>)

\* the input "\a,a" has yielded the one item "\a,a": the comma, which no
\* backslash precedes, did not end the item
C29_LaterCommaTakenAsEscaped ==
  /\ CsvParsed
  /\ CsvValue = <<92, 97, 44, 97>>
  /\ CsvItems = << <<92, 97, 44, 97>> >>

(***************************************************************************)
(* Properties of the facade's version and of the caller's arguments (under *)
(* Spec).                                                                  *)
(***************************************************************************)
\* a call of an action, through call() or the generated method, has been
\* signed and posted
ActionCallPosted ==
  /\ call.via \in {"call", "method"}
  /\ pc /= "idle"
  /\ signing /= NoSigning

\* C28: on every facade class that api_factory(schema, version) makes (API,
\* APIv2, and the class that the command line makes for a schema of its
\* own), the version field of the signed request is the version under which
\* the facade looked up the parameters of the action.
C28_SignedVersionIsLookupVersion ==
  ActionCallPosted => signing.params[S_version] = facade.version

\* a call on the class made by api_factory(schema, version="2013-11-04")
\* has looked up its parameters under 2013-11-04 and signed a request of
\* version 2011-08-01
C28_FactoryClassSignsDefaultVersion ==
  /\ ActionCallPosted
  /\ facade.cls = "api_factory"
  /\ facade.version = FUTURE_VERSION
  /\ HasAction(facade.schema, call.method, FUTURE_VERSION)
  /\ signing.params[S_version] = LATEST_VERSION

\* C30: run_query and call_arbitrary leave the mapping of arguments that
\* the caller handed them as it was: once the call has been made the
\* mapping holds the caller's entries and nothing else (no key, timestamp
\* or version field).
C30_CallerArgumentsUnchanged ==
  (call.via = "call_arbitrary" /\ pc /= "idle") => arguments = call.kwargs

\* call_arbitrary("Foo", {"x": "1"}) has been posted, and the caller's
\* mapping now holds the six fixed fields of the request beside x
C30_FixedFieldsAddedToArguments ==
  /\ call.via = "call_arbitrary"
  /\ call.kwargs = [k \in {K_x} |-> V_1]
  /\ pc = "posted"
  /\ DOMAIN arguments = {K_x, S_access_key_id, S_action, S_signature_version,
                         S_signature_method, S_timestamp, S_version}
  /\ arguments[S_timestamp] = call.timestamp
  /\ arguments = signing.params

(***************************************************************************)
(* Properties of the module landscape_computer_remove (under SpecRemove).  *)
(***************************************************************************)
\* the module has asked the server to remove computers
RemoveRequested == call.method = A_RemoveComputers /\ module.step /= "none"

\* the computers that the server reported under the name computer_name
NamedComputers ==
  {i \in 1..Len(module.computers) :
     module.computers[i].v["hostname"].v = module.computer_name}

\* C27: the module removes the named computer and no other: the one id it
\* hands to remove_computers is the id of a computer whose hostname equals
\* computer_name, whatever computers the server reports and in whatever
\* order; and when no hostname equals computer_name the module makes no
\* remove call and reports changed=False.
C27_RemovesOnlyNamedComputer ==
  /\ RemoveRequested =>
       \E i \in NamedComputers :
          /\ call.kwargs[N_computer_ids] = PyL(<<module.computers[i].v["id"]>>)
          /\ encoded.out = [k \in {ItemKey(N_computer_ids, 1)} |->
                              IntToStr(module.computers[i].v["id"].v)]
  /\ (module.exit = "exit_json" /\ NamedComputers = {}) =>
       /\ ~RemoveRequested
       /\ posts = 1
       /\ ~module.changed

\* computer_name is "ab" and the server reported the computers "ab" (id
\* 101) and "a" (id 102), in this order: the module has posted the removal
\* of computer 102
C27_OtherComputerRemoved ==
  /\ RemoveRequested
  /\ module.computer_name = <<97, 98>>
  /\ module.computers = <<Computer(<<97, 98>>, 101), Computer(<<97>>, 102)>>
  /\ pc = "posted"
  /\ posts = 2
  /\ signing.params[ItemKey(N_computer_ids, 1)] = IntToStr(102)
====
